---- MODULE Spec2Model ----
(***************************************************************************)
(* The user-data synchronisation engine of the keybindings resource:       *)
(* AbstractSynchroniser / AbstractFileSynchroniser (abstractSynchronizer)  *)
(* and KeybindingsSynchroniser, with the remote store, the local file, the *)
(* last-sync checkpoint, the preview resource and the backup store as      *)
(* state.  Every async method is cut at its awaits: one action per         *)
(* resumption, so that operations interleave exactly where the event loop  *)
(* lets them.                                                              *)
(***************************************************************************)
EXTENDS Integers, Sequences, FiniteSets, TLC

\* ------------------------------------------------------------------ bounds
MaxTasks == 2   \* engine operations in flight at the same time
MaxRef == 3     \* refs the remote store hands out
MaxStamp == 2   \* modification stamps of the local file
MaxOverlap == 1 \* calls made while another call is in flight (SpecConc)

\* ------------------------------------------------------- program constants
version == 1    \* KeybindingsSynchroniser.version

\* -------------------------------------------------------------------- data
NULL == "null"
Undef == "undefined"
Invalid == "{bad"
EmptyKb == "[]"
Kb == {EmptyKb, "a", "b"}
LocalContents == Kb \cup {Invalid}
Versions == {version, version + 1}

TaskIds == 1..MaxTasks
PromiseIds == 1..(MaxTasks + 1)

\* ISyncContent: the entries of the platforms; `mine' is the entry of OS
EmptySyncContent == [all |-> Undef, mine |-> Undef, other |-> Undef]

\* a stored payload (IUserData.content); NoPayload is content === null
NoPayload == [version |-> -1, content |-> EmptySyncContent]
\* ISyncData | null
NoSyncData == [version |-> 0, content |-> EmptySyncContent]
\* IRemoteUserData | null, and the `undefined' of a spread of null
NoUserData == [ref |-> 0, syncData |-> NoSyncData]
UndefUserData == [ref |-> -1, syncData |-> NoSyncData]
\* IFileContent | null
NoFile == [content |-> NULL, stamp |-> 0]

SyncStatus == {"Idle", "Syncing", "HasConflicts"}

VARIABLES
    enabled,      \* userDataSyncEnablementService.isResourceEnabled(resourceKey)
    perPlatform,  \* configuration value sync.keybindingsPerPlatform
    status,       \* AbstractSynchroniser._status
    localFile,    \* the keybindings file: content and modification stamp
    fileEvent,    \* a file-change event of the watcher waits for delivery
    remote,       \* the store's latest (ref, payload) for the resource
    checkpoint,   \* lastSync<resourceKey>.json
    previewFile,  \* conflictsPreviewResource
    backup,       \* last payload handed to the backup store
    spp,          \* syncPreviewResultPromise: a promise id, 0 for null
    promises,     \* the CancelablePromise objects still referenced
    tasks,        \* the async calls in flight, each at one of its awaits
    stops,        \* stop() calls waiting for their fileService.del
    ev,           \* outcome of the call that returned in the last step
    overlaps,     \* calls made so far while another call was in flight
    signals,      \* what the listeners of setStatus received in the last step
    client,       \* the call of UserDataSyncStoreService in flight or just returned
    cp            \* a caller of updateLastSyncUserData / getLastSyncUserData

vars == <<enabled, perPlatform, status, localFile, fileEvent, remote, checkpoint,
          previewFile, backup, spp, promises, tasks, stops, ev, overlaps, signals,
          client, cp>>

\* -------------------------------------------------------- pure functions
hasErrorsNever(content) == FALSE

\* AbstractJsonFileSynchroniser.hasErrors: the content has parse errors
hasErrors(content) == content = Invalid

\* a content that is the empty string
EmptyString == [all |-> "", mine |-> "", other |-> ""]

isSyncDataNever(thing) == FALSE

\* isSyncData: a truthy numeric version and a truthy string content (two keys)
isSyncData(thing) == thing.version > 0 /\ thing.content # EmptyString

JSONstringify(syncData) == [version |-> syncData.version, content |-> syncData.content]

\* a payload of the older format is the content itself, with no envelope: its
\* version is Bare; NotJson is a bare content that JSON.parse refuses
Bare == -2
NotJson == [all |-> Invalid, mine |-> Invalid, other |-> Invalid]
\* the string of an envelope taken as a content: a JSON object with none of
\* the platform entries
EnvelopeAsContent == [all |-> Undef, mine |-> Undef, other |-> "envelope"]

\* JSON.parse, then the migration of what isSyncData rejects; null (NoSyncData)
\* when JSON.parse throws
parseSyncData(content) ==
    IF content.version = Bare /\ content.content = NotJson
    THEN NoSyncData
    ELSE IF isSyncData(content)
    THEN [version |-> content.version, content |-> content.content]
    ELSE IF content.version = Bare THEN [version |-> version, content |-> content.content]
    ELSE [version |-> version, content |-> EnvelopeAsContent]

getKeybindingsContentFromSyncContent(syncContent) ==
    IF ~perPlatform
    THEN (IF syncContent.all = Undef THEN NULL ELSE syncContent.all)
    ELSE (IF syncContent.mine = Undef THEN NULL ELSE syncContent.mine)

\* syncContent is EmptySyncContent for null ('{}')
toSyncContent(keybindingsContent, syncContent) ==
    [all |-> IF ~perPlatform THEN keybindingsContent ELSE Undef,
     mine |-> keybindingsContent,
     other |-> syncContent.other]

\* keybindingsMerge.merge: a three-way merge of whole contents
merge(localContent, remoteContent, baseContent) ==
    LET base == IF baseContent = NULL THEN EmptyKb ELSE baseContent IN
    IF localContent = remoteContent
    THEN [mergeContent |-> localContent, hasChanges |-> FALSE, hasConflicts |-> FALSE]
    ELSE IF localContent = base
    THEN [mergeContent |-> remoteContent, hasChanges |-> TRUE, hasConflicts |-> FALSE]
    ELSE IF remoteContent = base
    THEN [mergeContent |-> localContent, hasChanges |-> TRUE, hasConflicts |-> FALSE]
    ELSE [mergeContent |-> localContent, hasChanges |-> TRUE, hasConflicts |-> TRUE]

\* --------------------------------------------------------- store, checkpoint
\* UserDataSyncStoreService.read: 304 hands back oldValue
StoreRead(oldValue) ==
    IF oldValue.ref # 0 /\ oldValue.ref = remote.ref
    THEN oldValue
    ELSE [ref |-> remote.ref, content |-> remote.content]

getUserData(lastSyncData) ==
    StoreRead(IF lastSyncData = NoUserData
              THEN [ref |-> 0, content |-> NoPayload]
              ELSE [ref |-> lastSyncData.ref,
                    content |-> IF lastSyncData.syncData = NoSyncData THEN NoPayload
                                ELSE JSONstringify(lastSyncData.syncData)])

getRemoteUserData(lastSyncData) ==
    LET ud == getUserData(lastSyncData) IN
    [ref |-> ud.ref,
     syncData |-> IF ud.content = NoPayload THEN NoSyncData ELSE parseSyncData(ud.content)]

NoCheckpoint == [ref |-> 0, content |-> NoPayload]

getLastSyncUserDataKeepsRef ==
    IF checkpoint = NoCheckpoint THEN NoUserData
    ELSE [ref |-> checkpoint.ref, syncData |-> parseSyncData(checkpoint.content)]

\* a missing file and a content that JSON.parse refuses both end in the catch
getLastSyncUserData ==
    IF checkpoint = NoCheckpoint \/ parseSyncData(checkpoint.content) = NoSyncData
    THEN NoUserData
    ELSE [ref |-> checkpoint.ref, syncData |-> parseSyncData(checkpoint.content)]

updateLastSyncUserData(lastSyncRemoteUserData) ==
    [ref |-> lastSyncRemoteUserData.ref,
     content |-> JSONstringify(lastSyncRemoteUserData.syncData)]

\* ------------------------------------------------------- promises and tasks
FreePromise ==
    [st |-> "free", stage |-> "-", remote |-> NoUserData, lastSync |-> NoUserData,
     file |-> NoFile, content |-> NULL, hasLocalChanged |-> FALSE,
     hasRemoteChanged |-> FALSE, hasConflicts |-> FALSE, err |-> "-"]

RejectedPromise(e) == [FreePromise EXCEPT !.st = "rejected", !.err = e]

FreeTask ==
    [op |-> "none", pc |-> "-", mref |-> 0, lastSync |-> NoUserData,
     remote |-> NoUserData, file |-> NoFile, pid |-> 0, aremote |-> NoUserData,
     force |-> FALSE, content |-> NULL,
     \* history: the ref its own remote write returned, the retries of the
     \* reconciliation, whether somebody else changed the file or the store
     \* since the call, and the call that returned just before this one was made
     wrote |-> 0, retries |-> 0, interfered |-> FALSE, after |-> "none",
     \* history: the call has written the local file; stop() has been called
     \* while the call was in flight
     wroteLocal |-> FALSE, stopped |-> FALSE,
     \* history: readFile of the checkpoint has failed in this call
     unreadable |-> FALSE,
     \* history: the state the call was made in
     scene |-> "none"]

NoEv == [op |-> "none", res |-> "-", retries |-> 0, interfered |-> FALSE]

\* no listener is registered on onDidChangeStatus and the telemetry service
NoListener == [on |-> FALSE, fired |-> <<>>]

\* the record of a call of the store client; IUserData | null is NullData for null
NullData == [ref |-> 0, content |-> NoPayload]
NoResponse == [sent |-> FALSE, ok |-> FALSE, statusCode |-> 0, etag |-> 0, body |-> NoPayload,
               honest |-> FALSE]
NoResult == [code |-> "-", value |-> NullData, tokenFailed |-> 0]
NoWrite == [ref |-> 0, data |-> NoPayload]

CallOf(op) ==
    [op |-> op, pc |-> "token", oldValue |-> NullData, data |-> NoPayload, ref |-> 0,
     headers |-> [ifNoneMatch |-> 0, ifMatch |-> 0], res |-> NoResponse,
     \* the value returned or the error thrown, and the calls of sendTokenFailed
     result |-> NoResult,
     \* history: the data of the last write without If-Match that the store has
     \* accepted and still holds, with the ref that write returned
     written |-> NoWrite]

NoCall == [CallOf("none") EXCEPT !.pc = "done"]

\* no caller of the checkpoint functions: the argument of the last update and
\* the value the last read returned
NoCaller == [op |-> "none", arg |-> NoUserData, got |-> NoUserData]

Event(op, res) == [NoEv EXCEPT !.op = op, !.res = res]

\* the engine's own part of the state, threaded through the synchronous code
Eng == [tasks |-> tasks, promises |-> promises, spp |-> spp, status |-> status, ev |-> NoEv,
        fired |-> <<>>]

\* a promise object is alive while the engine or a call holds it, and while the
\* writeFile its generatePreview has issued is under way
Referenced(e, p) ==
    \/ e.spp = p
    \/ \E t \in TaskIds : e.tasks[t].pid = p
    \/ e.promises[p].stage = "writePreview"

\* unreferenced promise objects are garbage
Commit(e) ==
    /\ tasks' = e.tasks
    /\ promises' = [p \in PromiseIds |-> IF Referenced(e, p) THEN e.promises[p] ELSE FreePromise]
    /\ spp' = e.spp
    /\ status' = e.status
    /\ ev' = e.ev
    /\ signals' = [signals EXCEPT !.fired = IF signals.on THEN e.fired ELSE <<>>]

FreePid(e) == CHOOSE p \in PromiseIds : ~Referenced(e, p) /\ \A q \in PromiseIds : ~Referenced(e, q) => p <= q

FiredOnEveryCall(oldStatus, s) ==
    [from |-> oldStatus, to |-> s, changed |-> 1,
     conflictsDetected |-> IF s = "HasConflicts" THEN 1 ELSE 0,
     conflictsResolved |-> IF oldStatus = "HasConflicts" /\ s = "Idle" THEN 1 ELSE 0]

\* what one call of setStatus hands to its listeners: the status-changed event
\* and the two telemetry signals
Fired(oldStatus, s) ==
    [from |-> oldStatus, to |-> s,
     changed |-> IF oldStatus # s THEN 1 ELSE 0,
     conflictsDetected |-> IF oldStatus # s /\ s = "HasConflicts" THEN 1 ELSE 0,
     conflictsResolved |-> IF oldStatus # s /\ oldStatus = "HasConflicts" /\ s = "Idle"
                           THEN 1 ELSE 0]

\* AbstractSynchroniser.setStatus
setStatus(e, s) == [e EXCEPT !.status = s, !.fired = Append(@, Fired(e.status, s))]

\* CancelablePromise.cancel: the promise rejects at once; generatePreview looks
\* at the token only before it calls writeFile, so a write already issued goes on
Canceled(pr) ==
    IF pr.st # "pending" THEN pr
    ELSE IF pr.stage = "writePreview"
    THEN [RejectedPromise("Canceled") EXCEPT !.stage = "writePreview", !.content = pr.content]
    ELSE RejectedPromise("Canceled")

\* AbstractFileSynchroniser.cancel
cancel(e) ==
    IF e.spp = 0 THEN e
    ELSE [e EXCEPT !.promises[e.spp] = Canceled(@), !.spp = 0]

\* AbstractFileSynchroniser.stop, up to its await of the delete
stop(e) ==
    [cancel(e) EXCEPT !.tasks = [t \in TaskIds |->
                                    IF @[t].op = "none" THEN @[t]
                                    ELSE [@[t] EXCEPT !.stopped = TRUE]]]

\* the call of task t returns or throws: res is "ok" after an apply, "nothing"
\* when there was nothing to apply, "conflicts", or the error
Return(e, t, res) ==
    [e EXCEPT !.tasks[t] = FreeTask,
              !.ev = [op |-> e.tasks[t].op, res |-> res,
                      retries |-> e.tasks[t].retries, interfered |-> e.tasks[t].interfered]]

ResolvedPromise(fileContent, remoteUserData, lastSyncUserData, content, hasLocalChanged, hasRemoteChanged, hasConflicts) ==
    [st |-> "resolved", stage |-> "-", remote |-> remoteUserData, lastSync |-> lastSyncUserData,
     file |-> fileContent, content |-> content, hasLocalChanged |-> hasLocalChanged,
     hasRemoteChanged |-> hasRemoteChanged, hasConflicts |-> hasConflicts, err |-> "-"]

\* this.syncPreviewResultPromise = createCancelablePromise(...)
setPreviewPromise(e, pr) ==
    LET e0 == [e EXCEPT !.spp = 0]
        p == FreePid(e0)
    IN [e0 EXCEPT !.promises[p] = pr, !.spp = p]

\* KeybindingsSynchroniser.getPreview, up to the first await of generatePreview
getPreview(e, t) ==
    LET e1 == IF e.spp # 0 THEN e
              ELSE setPreviewPromise(e, [FreePromise EXCEPT !.st = "pending", !.stage = "readLocal",
                                                            !.remote = e.tasks[t].remote,
                                                            !.lastSync = e.tasks[t].lastSync])
    IN [e1 EXCEPT !.tasks[t].pid = e1.spp, !.tasks[t].pc = "awaitPreview"]

\* KeybindingsSynchroniser.performSync, up to its await of the preview
performSync(e, t) ==
    getPreview([e EXCEPT !.tasks[t].pid = 0, !.tasks[t].aremote = NoUserData,
                         !.tasks[t].force = FALSE], t)

\* an error leaves doSync: sync()'s finally sets the status (its local `status'
\* is still Idle); the file-change re-sync has no rejection handler
ThrowOut(e, t, err) ==
    IF e.tasks[t].op = "sync" THEN Return(setStatus(e, "Idle"), t, err)
    ELSE Return(e, t, err)

ThrowUncaught(e, t, err) == ThrowOut(e, t, err)

\* the catch of doSync
ThrowFromDoSync(e, t, err) ==
    IF err = "RemotePreconditionFailed"
    THEN [e EXCEPT !.tasks[t].pc = "refetch", !.tasks[t].pid = 0,
                   !.tasks[t].aremote = NoUserData, !.tasks[t].force = FALSE,
                   !.tasks[t].retries = @ + 1]
    ELSE ThrowOut(e, t, err)

ThrowFromPerformSyncKeepsPreview(e, t, err) ==
    IF err = "LocalPreconditionFailed"
    THEN performSync([e EXCEPT !.tasks[t].retries = @ + 1], t)
    ELSE ThrowFromDoSync(e, t, err)

\* the catch of performSync
ThrowFromPerformSync(e, t, err) ==
    LET e1 == [e EXCEPT !.spp = 0] IN
    IF err = "LocalPreconditionFailed"
    THEN performSync([e1 EXCEPT !.tasks[t].retries = @ + 1], t)
    ELSE ThrowFromDoSync(e1, t, err)

\* an error thrown inside apply, as the caller of apply handles it
Throw(e, t, err) ==
    LET op == e.tasks[t].op IN
    IF op \in {"sync", "resync"} THEN ThrowFromPerformSync(e, t, err)
    ELSE IF op \in {"pull", "push"} THEN Return(setStatus(e, "Idle"), t, err)
    ELSE Return(e, t, err)

doSyncUnchecked(e, t) == performSync(e, t)

\* AbstractSynchroniser.doSync, up to the first await
doSync(e, t) ==
    LET remoteUserData == e.tasks[t].remote IN
    IF remoteUserData.syncData # NoSyncData /\ remoteUserData.syncData.version > version
    THEN ThrowOut(e, t, "Incompatible")
    ELSE performSync(e, t)

\* apply has returned: every caller ends with the status Idle
applyReturn(e, t, res) == Return(setStatus(e, "Idle"), t, res)

applyEndUnknown(e, t) == applyReturn([e EXCEPT !.spp = 0], t, "Unknown")

\* the last statement of apply, then the return
applyEnd(e, t) == applyReturn([e EXCEPT !.spp = 0], t, "ok")

\* KeybindingsSynchroniser.apply, up to its await of the preview promise
applyStart(e, t, forcePush) ==
    IF e.spp = 0 THEN applyReturn(e, t, "nothing")
    ELSE [e EXCEPT !.tasks[t].pid = e.spp, !.tasks[t].pc = "applyAwait",
                   !.tasks[t].force = forcePush]

afterPreviewDeleteSkipsCheckpoint(e, t) == applyEnd(e, t)

\* apply after the preview is deleted (or no content): the checkpoint condition
afterPreviewDelete(e, t) ==
    LET rec == e.tasks[t]
        pr == e.promises[rec.pid]
    IN IF rec.aremote = UndefUserData THEN Throw(e, t, "TypeError")
       ELSE IF pr.lastSync.ref # rec.aremote.ref /\ (pr.content # NULL \/ pr.file # NoFile)
       THEN [e EXCEPT !.tasks[t].pc = "checkpoint"]
       ELSE applyEnd(e, t)
\* ------------------------------------------------------------------- state
Init ==
    /\ enabled = TRUE
    /\ perPlatform \in BOOLEAN
    /\ status = "Idle"
    /\ localFile = NoFile
    /\ fileEvent = FALSE
    /\ remote = [ref |-> 1, content |-> NoPayload]
    /\ checkpoint = NoCheckpoint
    /\ previewFile = NULL
    /\ backup = NoPayload
    /\ spp = 0
    /\ promises = [p \in PromiseIds |-> FreePromise]
    /\ tasks = [t \in TaskIds |-> FreeTask]
    /\ stops = 0
    /\ ev = NoEv
    /\ overlaps = 0
    /\ signals = NoListener
    /\ client = NoCall
    /\ cp = NoCaller

\* a call takes the lowest free slot
FreeSlot(t) == tasks[t].op = "none" /\ \A u \in TaskIds : u < t => tasks[u].op # "none"

NewTask(op, pc) == [FreeTask EXCEPT !.op = op, !.pc = pc]

Skipped(op) == [Eng EXCEPT !.ev = Event(op, "skipped")]

At(t, pc) == tasks[t].op # "none" /\ tasks[t].pc = pc

Settled(p) == p # 0 /\ promises[p].st \in {"resolved", "rejected"}

\* ------------------------------------------------------ views of the state
\* the keybindings a stored payload holds for this platform, NULL for none
RemoteKb(payload) ==
    IF payload = NoPayload THEN NULL
    ELSE getKeybindingsContentFromSyncContent(parseSyncData(payload).content)

SnapshotKb(userData) ==
    IF userData.syncData = NoSyncData THEN NULL
    ELSE getKeybindingsContentFromSyncContent(userData.syncData.content)

LocalKb == IF localFile = NoFile THEN NULL ELSE localFile.content

CheckpointKb ==
    IF checkpoint = NoCheckpoint THEN NULL
    ELSE getKeybindingsContentFromSyncContent(parseSyncData(checkpoint.content).content)

\* the state of the two-device forward merge: the checkpoint and the local
\* file hold the keybindings this device synchronised last, another device has
\* replaced them in the store since, and no preview is pending
Forward ==
    /\ spp = 0
    /\ checkpoint # NoCheckpoint /\ checkpoint.ref # remote.ref
    /\ LocalKb # NULL /\ CheckpointKb = LocalKb
    /\ RemoteKb(remote.content) \notin {NULL, LocalKb}
    /\ remote.content.version = version

\* ------------------------------------------------------------- environment
\* the calls in flight have seen a change made by somebody else
Interfered ==
    [t \in TaskIds |-> IF tasks[t].op = "none" THEN tasks[t]
                       ELSE [tasks[t] EXCEPT !.interfered = TRUE, !.after = "none"]]

\* the user (or another program) writes the keybindings file
LocalEdit(c) ==
    /\ localFile.stamp < MaxStamp
    /\ localFile' = [content |-> c, stamp |-> localFile.stamp + 1]
    /\ fileEvent' = TRUE
    /\ ev' = NoEv
    /\ tasks' = Interfered
    /\ signals' = [signals EXCEPT !.fired = <<>>]
    /\ UNCHANGED <<enabled, perPlatform, status, remote, checkpoint, previewFile, backup,
                   spp, promises, stops>>

\* another device writes the resource: its platform entry is `mine' when it
\* runs the same OS, `other' when not
OtherWrite(c, v, os) ==
    /\ remote.ref < MaxRef
    /\ LET prev == IF remote.content = NoPayload THEN EmptySyncContent
                   ELSE parseSyncData(remote.content).content
           next == [all |-> IF perPlatform THEN Undef ELSE c,
                    mine |-> IF os = "mine" THEN c ELSE prev.mine,
                    other |-> IF os = "other" THEN c ELSE prev.other]
       IN remote' = [ref |-> remote.ref + 1, content |-> [version |-> v, content |-> next]]
    /\ ev' = NoEv
    /\ tasks' = Interfered
    /\ signals' = [signals EXCEPT !.fired = <<>>]
    /\ UNCHANGED <<enabled, perPlatform, status, localFile, fileEvent, checkpoint,
                   previewFile, backup, spp, promises, stops>>

SetEnabled ==
    /\ enabled' = ~enabled
    /\ ev' = NoEv
    /\ signals' = [signals EXCEPT !.fired = <<>>]
    /\ UNCHANGED <<perPlatform, status, localFile, fileEvent, remote, checkpoint,
                   previewFile, backup, spp, promises, tasks, stops>>

\* ------------------------------------------------------------------- calls
\* AbstractSynchroniser.sync, up to its first await; mref is the ref argument
skipSyncUnlessConflicts == ~enabled \/ status = "Syncing"

\* the three early returns of sync
skipSync == ~enabled \/ status = "HasConflicts" \/ status = "Syncing"

\* the call that returned in the last step, if it applied and nobody else
\* changed the file or the store while it ran
After == IF ev.res = "ok" /\ ~ev.interfered THEN ev.op ELSE "none"

SyncCall(t, mref) ==
    /\ FreeSlot(t)
    /\ Commit(IF skipSync
              THEN Skipped("sync")
              ELSE [setStatus(Eng, "Syncing") EXCEPT
                        !.tasks[t] = [NewTask("sync", "readLast") EXCEPT
                                          !.mref = mref, !.after = After,
                                          !.scene = IF Forward /\ mref = 0 THEN "forward"
                                                    ELSE "none"]])
    /\ UNCHANGED <<enabled, perPlatform, localFile, fileEvent, remote, checkpoint,
                   previewFile, backup, stops>>

\* a call of stop()
StopCall ==
    /\ stops' = stops + 1
    /\ Commit(stop(Eng))
    /\ UNCHANGED <<enabled, perPlatform, localFile, fileEvent, remote, checkpoint,
                   previewFile, backup>>

\* stop after the delete; a delete that fails is ignored, and the event
\* records whether it left a preview resource behind
StopFinish(ok) ==
    /\ stops > 0
    /\ stops' = stops - 1
    /\ previewFile' = IF ok THEN NULL ELSE previewFile
    /\ Commit([setStatus(Eng, "Idle") EXCEPT !.ev = Event("stop", IF ok \/ previewFile = NULL THEN "ok"
                                                              ELSE "undeleted")])
    /\ UNCHANGED <<enabled, perPlatform, localFile, fileEvent, remote, checkpoint, backup>>

\* pull and push, up to their first await: stop() is called and not awaited
PullCall(t) ==
    /\ FreeSlot(t)
    /\ IF ~enabled
       THEN Commit(Skipped("pull")) /\ UNCHANGED stops
       ELSE /\ stops' = stops + 1
            /\ Commit([setStatus(stop(Eng), "Syncing") EXCEPT !.tasks[t] = NewTask("pull", "readLast")])
    /\ UNCHANGED <<enabled, perPlatform, localFile, fileEvent, remote, checkpoint,
                   previewFile, backup>>

PushCall(t) ==
    /\ FreeSlot(t)
    /\ IF ~enabled
       THEN Commit(Skipped("push")) /\ UNCHANGED stops
       ELSE /\ stops' = stops + 1
            /\ Commit([setStatus(stop(Eng), "Syncing") EXCEPT !.tasks[t] = NewTask("push", "pushReadLocal")])
    /\ UNCHANGED <<enabled, perPlatform, localFile, fileEvent, remote, checkpoint,
                   previewFile, backup>>

skipAcceptWhenIdle == status = "Idle"

\* the condition of accept
skipAccept == status # "HasConflicts"

\* accept, up to its await of the pending preview
AcceptCall(t, c) ==
    /\ FreeSlot(t)
    /\ Commit(IF skipAccept
              THEN Skipped("accept")
              ELSE [Eng EXCEPT !.tasks[t] = [NewTask("accept", "acceptAwait") EXCEPT
                                                 !.pid = spp, !.content = c]])
    /\ UNCHANGED <<enabled, perPlatform, localFile, fileEvent, remote, checkpoint,
                   previewFile, backup, stops>>

\* AbstractFileSynchroniser.onFileChanges
FileChangeEvent(t) ==
    /\ fileEvent
    /\ fileEvent' = FALSE
    /\ IF ~enabled THEN Commit(Eng)
       ELSE IF status = "HasConflicts"
       THEN IF spp = 0 THEN Commit(Eng)
            ELSE /\ FreeSlot(t)
                 /\ Commit([Eng EXCEPT !.tasks[t] = [NewTask("resync", "resyncAwait") EXCEPT !.pid = spp]])
       ELSE Commit([Eng EXCEPT !.ev = Event("file", "changed")])
    /\ UNCHANGED <<enabled, perPlatform, localFile, remote, checkpoint, previewFile,
                   backup, stops>>
\* ------------------------------------------------------ steps of the calls
Rest == <<enabled, perPlatform, localFile, fileEvent, remote, checkpoint, previewFile,
          backup, stops>>

\* await this.getLastSyncUserData() in sync, pull and push
ReadLastSyncFrom(t, lastSyncUserData, readOk) ==
    /\ At(t, "readLast")
    /\ LET e == [Eng EXCEPT !.tasks[t].lastSync = lastSyncUserData, !.tasks[t].mref = 0,
                            !.tasks[t].unreadable = ~readOk]
           rec == tasks[t]
       IN Commit(IF rec.op = "sync" /\ rec.mref # 0 /\ lastSyncUserData # NoUserData
                    /\ lastSyncUserData.ref = rec.mref
                 THEN doSync([e EXCEPT !.tasks[t].remote = lastSyncUserData], t)
                 ELSE [e EXCEPT !.tasks[t].pc = "readRemote"])
    /\ UNCHANGED Rest

ReadLastSync(t) == ReadLastSyncFrom(t, getLastSyncUserData, TRUE)

\* the same await when readFile of an existing checkpoint file fails: the
\* catch of getLastSyncUserData logs the error and null is returned
ReadLastSyncUnreadable(t) ==
    /\ checkpoint # NoCheckpoint
    /\ ReadLastSyncFrom(t, NoUserData, FALSE)

pullPreviewBothSides(rec, fileContent) ==
    ResolvedPromise(fileContent, rec.remote, rec.lastSync, rec.content, TRUE, TRUE, FALSE)

\* the preview that pull and push hand to apply
pullPreview(rec, fileContent) ==
    ResolvedPromise(fileContent, rec.remote, rec.lastSync, rec.content, TRUE, FALSE, FALSE)

pushPreview(rec) ==
    ResolvedPromise(rec.file, rec.remote, rec.lastSync, rec.file.content, FALSE, TRUE, FALSE)

\* await this.getRemoteUserData(lastSyncUserData) in sync, pull and push;
\* in sync the await is outside the try
ReadRemote(t, ok) ==
    /\ At(t, "readRemote")
    /\ LET rec == tasks[t]
           remoteUserData == getRemoteUserData(rec.lastSync)
           e == [Eng EXCEPT !.tasks[t].remote = remoteUserData]
           content == IF remoteUserData.syncData # NoSyncData
                      THEN getKeybindingsContentFromSyncContent(remoteUserData.syncData.content)
                      ELSE NULL
       IN Commit(IF ~ok
                 THEN (IF rec.op = "sync" THEN Return(Eng, t, "StoreError")
                       ELSE Return(setStatus(Eng, "Idle"), t, "StoreError"))
                 ELSE IF rec.op = "sync" THEN doSync(e, t)
                 ELSE IF rec.op = "pull"
                 THEN (IF content # NULL
                       THEN [e EXCEPT !.tasks[t].content = content, !.tasks[t].pc = "pullReadLocal"]
                       ELSE Return(setStatus(e, "Idle"), t, "nothing"))
                 ELSE applyStart(setPreviewPromise(e, pushPreview(e.tasks[t])), t, TRUE))
    /\ UNCHANGED Rest

\* doSync's catch: await this.getRemoteUserData(null), then doSync again
Refetch(t, ok) ==
    /\ At(t, "refetch")
    /\ Commit(IF ok THEN doSync([Eng EXCEPT !.tasks[t].remote = getRemoteUserData(NoUserData)], t)
              ELSE ThrowOut(Eng, t, "StoreError"))
    /\ UNCHANGED Rest

\* await this.getLocalFileContent() in pull, then the start of apply
PullReadLocal(t) ==
    /\ At(t, "pullReadLocal")
    /\ Commit(applyStart(setPreviewPromise(Eng, pullPreview(tasks[t], localFile)), t, FALSE))
    /\ UNCHANGED Rest

\* await this.getLocalFileContent() in push
PushReadLocal(t) ==
    /\ At(t, "pushReadLocal")
    /\ Commit(IF localFile = NoFile THEN Return(setStatus(Eng, "Idle"), t, "nothing")
              ELSE [Eng EXCEPT !.tasks[t].file = localFile, !.tasks[t].pc = "readLast"])
    /\ UNCHANGED Rest

needsMergeFirstTime(localContent, remoteContent, lastSyncContent) == lastSyncContent = NULL

\* generatePreview: the condition under which the merge engine is called
needsMerge(localContent, remoteContent, lastSyncContent) ==
    \/ lastSyncContent = NULL
    \/ lastSyncContent # localContent
    \/ lastSyncContent # remoteContent

\* KeybindingsSynchroniser.generatePreview from its read of the local file to
\* the decision to write the preview
generatePreview(pr, fileContent) ==
    LET remoteContent == IF pr.remote.syncData # NoSyncData
                         THEN getKeybindingsContentFromSyncContent(pr.remote.syncData.content)
                         ELSE NULL
        lastSyncContent == IF pr.lastSync # NoUserData /\ pr.lastSync.syncData # NoSyncData
                           THEN getKeybindingsContentFromSyncContent(pr.lastSync.syncData.content)
                           ELSE NULL
        localContent == IF fileContent # NoFile THEN fileContent.content ELSE EmptyKb
        result == merge(localContent, remoteContent, lastSyncContent)
        none == [pr EXCEPT !.file = fileContent, !.stage = "writePreview"]
    IN IF remoteContent # NULL
       THEN IF hasErrors(localContent) THEN RejectedPromise("LocalInvalidContent")
            ELSE IF needsMerge(localContent, remoteContent, lastSyncContent) /\ result.hasChanges
            THEN [none EXCEPT !.content = result.mergeContent,
                              !.hasConflicts = result.hasConflicts,
                              !.hasLocalChanged = result.hasConflicts \/ result.mergeContent # localContent,
                              !.hasRemoteChanged = result.hasConflicts \/ result.mergeContent # remoteContent]
            ELSE none
       ELSE IF fileContent # NoFile
       THEN [none EXCEPT !.content = fileContent.content, !.hasRemoteChanged = TRUE]
       ELSE none

ResolveRemoteChanged(pr) == [pr EXCEPT !.st = "resolved", !.stage = "-", !.hasRemoteChanged = TRUE]

\* generatePreview returns its result
Resolve(pr) == [pr EXCEPT !.st = "resolved", !.stage = "-"]

GenReadLocal(p) ==
    /\ promises[p].st = "pending" /\ promises[p].stage = "readLocal"
    /\ LET pr == generatePreview(promises[p], localFile) IN
       Commit([Eng EXCEPT !.promises[p] = IF pr.st = "pending" /\ pr.content = NULL
                                          THEN Resolve(pr) ELSE pr])
    /\ UNCHANGED Rest

\* the write of the preview resource, then the promise resolves
GenWritePreview(p) ==
    /\ promises[p].stage = "writePreview"
    /\ previewFile' = promises[p].content
    /\ Commit([Eng EXCEPT !.promises[p] = IF @.st = "pending" THEN Resolve(@)
                                          ELSE RejectedPromise("Canceled")])
    /\ UNCHANGED <<enabled, perPlatform, localFile, fileEvent, remote, checkpoint, backup, stops>>

\* performSync after its await of getPreview
AwaitPreview(t) ==
    /\ At(t, "awaitPreview") /\ Settled(tasks[t].pid)
    /\ LET pr == promises[tasks[t].pid] IN
       Commit(IF pr.st = "rejected" THEN ThrowFromPerformSync(Eng, t, pr.err)
              ELSE IF pr.hasConflicts THEN Return(setStatus(Eng, "HasConflicts"), t, "conflicts")
              ELSE applyStart(Eng, t, FALSE))
    /\ UNCHANGED Rest

\* apply after its await of the preview promise
ApplyAwait(t) ==
    /\ At(t, "applyAwait") /\ Settled(tasks[t].pid)
    /\ LET pr == promises[tasks[t].pid]
           e == [Eng EXCEPT !.tasks[t].aremote = pr.remote]
       IN Commit(IF pr.st = "rejected" THEN Throw(Eng, t, pr.err)
                 ELSE IF pr.content = NULL THEN afterPreviewDelete(e, t)
                 ELSE IF hasErrors(pr.content) THEN Throw(e, t, "LocalInvalidContent")
                 ELSE IF pr.hasLocalChanged THEN [e EXCEPT !.tasks[t].pc = "backup"]
                 ELSE IF pr.hasRemoteChanged THEN [e EXCEPT !.tasks[t].pc = "writeRemote"]
                 ELSE [e EXCEPT !.tasks[t].pc = "delPreview"])
    /\ UNCHANGED Rest
\* await this.backupLocal(this.toSyncContent(content, null))
backupLocal(content) == JSONstringify([version |-> version, content |-> content])

Backup(t) ==
    /\ At(t, "backup")
    /\ backup' = backupLocal(toSyncContent(promises[tasks[t].pid].content, EmptySyncContent))
    /\ Commit([Eng EXCEPT !.tasks[t].pc = "writeLocal"])
    /\ UNCHANGED <<enabled, perPlatform, localFile, fileEvent, remote, checkpoint,
                   previewFile, stops>>

LocalPreconditionOverwrite(oldContent) ==
    oldContent # NoFile => ~(localFile.content # NULL /\ localFile.stamp > oldContent.stamp)

\* fileService.writeFile(file, newContent, oldContent) refuses a file modified
\* since oldContent was read; createFile without overwrite refuses a file
LocalPrecondition(oldContent) ==
    IF oldContent # NoFile
    THEN ~(localFile.content # NULL /\ localFile.stamp > oldContent.stamp)
    ELSE localFile.content = NULL

\* await this.updateLocalFileContent(content, fileContent)
WriteLocal(t, ok) ==
    /\ At(t, "writeLocal")
    /\ LET pr == promises[tasks[t].pid] IN
       IF ~ok
       THEN Commit(Throw(Eng, t, "LocalError")) /\ UNCHANGED <<localFile, fileEvent>>
       ELSE IF ~LocalPrecondition(pr.file)
       THEN Commit(Throw(Eng, t, "LocalPreconditionFailed")) /\ UNCHANGED <<localFile, fileEvent>>
       ELSE /\ localFile.stamp < MaxStamp
            /\ localFile' = [content |-> pr.content, stamp |-> localFile.stamp + 1]
            /\ fileEvent' = TRUE
            /\ Commit([Eng EXCEPT !.tasks[t].pc = IF pr.hasRemoteChanged THEN "writeRemote"
                                                  ELSE "delPreview",
                                  !.tasks[t].wroteLocal = TRUE])
    /\ UNCHANGED <<enabled, perPlatform, remote, checkpoint, previewFile, backup, stops>>

IfMatchAlways(forcePush, ref) == ref

IfMatchNever(forcePush, ref) == 0

\* the If-Match header of the write in apply
IfMatch(forcePush, ref) == IF forcePush THEN 0 ELSE ref

\* await this.updateRemoteUserData(remoteContents, forcePush ? null : remoteUserData.ref)
WriteRemote(t, ok) ==
    /\ At(t, "writeRemote")
    /\ LET rec == tasks[t]
           pr == promises[rec.pid]
           remoteContents == toSyncContent(pr.content,
                                 IF rec.aremote.syncData # NoSyncData
                                 THEN rec.aremote.syncData.content ELSE EmptySyncContent)
           syncData == [version |-> version, content |-> remoteContents]
           ref == IfMatch(rec.force, rec.aremote.ref)
       IN IF ~ok
          THEN Commit(Throw(Eng, t, "StoreError")) /\ UNCHANGED remote
          ELSE IF ref # 0 /\ ref # remote.ref
          THEN Commit(Throw(Eng, t, "RemotePreconditionFailed")) /\ UNCHANGED remote
          ELSE /\ remote.ref < MaxRef
               /\ remote' = [ref |-> remote.ref + 1, content |-> JSONstringify(syncData)]
               /\ Commit([Eng EXCEPT !.tasks[t].aremote = [ref |-> remote.ref + 1, syncData |-> syncData],
                                     !.tasks[t].wrote = remote.ref + 1,
                                     !.tasks[t].pc = "delPreview"])
    /\ UNCHANGED <<enabled, perPlatform, localFile, fileEvent, checkpoint, previewFile,
                   backup, stops>>

\* await this.fileService.del(this.conflictsPreviewResource), errors ignored
DelPreview(t) ==
    /\ At(t, "delPreview")
    /\ previewFile' = NULL
    /\ Commit(afterPreviewDelete(Eng, t))
    /\ UNCHANGED <<enabled, perPlatform, localFile, fileEvent, remote, checkpoint, backup, stops>>

lastSyncOfSnapshot(rec, pr) ==
    [ref |-> pr.remote.ref,
     syncData |-> [version |-> rec.aremote.syncData.version,
                   content |-> toSyncContent(IF pr.content # NULL THEN pr.content
                                             ELSE pr.file.content, EmptySyncContent)]]

\* the checkpoint apply writes
lastSyncOfApply(rec, pr) ==
    [ref |-> rec.aremote.ref,
     syncData |-> [version |-> rec.aremote.syncData.version,
                   content |-> toSyncContent(IF pr.content # NULL THEN pr.content
                                             ELSE pr.file.content, EmptySyncContent)]]

\* await this.updateLastSyncUserData(...), then the end of apply
Checkpoint(t, ok) ==
    /\ At(t, "checkpoint")
    /\ LET rec == tasks[t]
           pr == promises[rec.pid]
       IN IF rec.aremote.syncData = NoSyncData
          THEN Commit(Throw(Eng, t, "TypeError")) /\ UNCHANGED checkpoint
          ELSE IF ~ok
          THEN Commit(Throw(Eng, t, "LocalError")) /\ UNCHANGED checkpoint
          ELSE /\ checkpoint' = updateLastSyncUserData(lastSyncOfApply(rec, pr))
               /\ Commit(applyEnd(Eng, t))
    /\ UNCHANGED <<enabled, perPlatform, localFile, fileEvent, remote, previewFile, backup, stops>>

\* accept after its await of the pending preview (await null when there is none)
AcceptAwait(t) ==
    /\ At(t, "acceptAwait")
    /\ tasks[t].pid = 0 \/ Settled(tasks[t].pid)
    /\ LET rec == tasks[t]
           preview == IF rec.pid = 0
                      THEN ResolvedPromise(NoFile, UndefUserData, NoUserData, NULL, FALSE, FALSE, FALSE)
                      ELSE promises[rec.pid]
       IN Commit(IF preview.st = "rejected" THEN Return(Eng, t, preview.err)
                 ELSE applyStart(setPreviewPromise(cancel(Eng), [preview EXCEPT !.content = rec.content]),
                                 t, TRUE))
    /\ UNCHANGED Rest

\* the then-callback of onFileChanges; a rejected preview never calls it
ResyncAwait(t) ==
    /\ At(t, "resyncAwait") /\ Settled(tasks[t].pid)
    /\ LET result == promises[tasks[t].pid] IN
       Commit(IF result.st = "rejected" THEN Return(Eng, t, "dropped")
              ELSE doSync([cancel(Eng) EXCEPT !.tasks[t].remote = result.remote,
                                              !.tasks[t].lastSync = result.lastSync], t))
    /\ UNCHANGED Rest

\* ----------------------------------------------------------- specification
\* a continuation that waits only for a settled promise is a microtask: the
\* event loop runs it before any I/O completion, timer or new call
Micro ==
    \E t \in TaskIds :
        /\ tasks[t].pc \in {"awaitPreview", "applyAwait", "acceptAwait", "resyncAwait"}
        /\ tasks[t].pid = 0 \/ Settled(tasks[t].pid)

Busy == \E t \in TaskIds : tasks[t].op # "none"

Now(A) == A /\ UNCHANGED <<overlaps, client, cp>>

IO(A) == ~Micro /\ A /\ UNCHANGED <<overlaps, client, cp>>

\* a driver that awaits every call before it makes the next one
Serial(A) == ~Micro /\ ~Busy /\ A /\ UNCHANGED <<overlaps, client, cp>>

\* a driver that makes up to MaxOverlap calls without awaiting the one in flight
Overlap(A) ==
    /\ ~Micro
    /\ Busy => overlaps < MaxOverlap
    /\ A
    /\ overlaps' = IF Busy /\ (tasks' # tasks \/ stops' # stops) THEN overlaps + 1 ELSE overlaps
    /\ UNCHANGED <<client, cp>>

\* the steps of the calls in flight, with store and file failures from OK
Steps(OK) ==
    \/ IO(\E ok \in OK : StopFinish(ok))
    \/ IO(\E t \in TaskIds : ReadLastSync(t))
    \/ IO(\E t \in TaskIds : \E ok \in OK : ReadRemote(t, ok))
    \/ IO(\E t \in TaskIds : \E ok \in OK : Refetch(t, ok))
    \/ IO(\E t \in TaskIds : PullReadLocal(t))
    \/ IO(\E t \in TaskIds : PushReadLocal(t))
    \/ IO(\E p \in PromiseIds : GenReadLocal(p))
    \/ IO(\E p \in PromiseIds : GenWritePreview(p))
    \/ Now(\E t \in TaskIds : AwaitPreview(t))
    \/ Now(\E t \in TaskIds : ApplyAwait(t))
    \/ IO(\E t \in TaskIds : Backup(t))
    \/ IO(\E t \in TaskIds : \E ok \in OK : WriteLocal(t, ok))
    \/ IO(\E t \in TaskIds : \E ok \in OK : WriteRemote(t, ok))
    \/ IO(\E t \in TaskIds : DelPreview(t))
    \/ IO(\E t \in TaskIds : \E ok \in OK : Checkpoint(t, ok))
    \/ Now(\E t \in TaskIds : AcceptAwait(t))
    \/ Now(\E t \in TaskIds : ResyncAwait(t))

\* keybindings kept per platform
InitPerPlatform == Init /\ perPlatform = TRUE

\* the serial driver, with failing I/O, incompatible remote data and the
\* resource switched off and on
Next ==
    \/ IO(\E c \in {"a"} : LocalEdit(c))
    \/ IO(\E c \in {"b"}, v \in Versions, os \in {"mine"} : OtherWrite(c, v, os))
    \/ Serial(SetEnabled)
    \/ Serial(\E t \in TaskIds : \E mref \in {0, 2} : SyncCall(t, mref))
    \/ Serial(stops = 0 /\ \E t \in TaskIds : PullCall(t))
    \/ Serial(stops = 0 /\ \E t \in TaskIds : PushCall(t))
    \/ Serial(\E t \in TaskIds : \E c \in {"b"} : AcceptCall(t, c))
    \/ Serial(stops = 0 /\ StopCall)
    \/ Serial(\E t \in TaskIds : FileChangeEvent(t))
    \/ Steps(BOOLEAN)

Spec == InitPerPlatform /\ [][Next]_vars

\* a device that starts with an earlier session's synchronisation in place:
\* file, store and checkpoint hold the same keybindings
SyncedPayload == JSONstringify([version |-> version, content |-> toSyncContent(EmptyKb, EmptySyncContent)])

InitSynced ==
    /\ enabled = TRUE
    /\ perPlatform = TRUE
    /\ status = "Idle"
    /\ localFile = [content |-> EmptyKb, stamp |-> 0]
    /\ fileEvent = FALSE
    /\ remote = [ref |-> 1, content |-> SyncedPayload]
    /\ checkpoint = [ref |-> 1, content |-> SyncedPayload]
    /\ previewFile = NULL
    /\ backup = NoPayload
    /\ spp = 0
    /\ promises = [p \in PromiseIds |-> FreePromise]
    /\ tasks = [t \in TaskIds |-> FreeTask]
    /\ stops = 0
    /\ ev = NoEv
    /\ overlaps = 0
    /\ signals = NoListener
    /\ client = NoCall
    /\ cp = NoCaller

SpecSynced == InitSynced /\ [][Next]_vars

\* one preview generation on every input: a sync() that has read a checkpoint
\* and a remote snapshot and waits for its preview, the local file not yet read
PreviewFiles == {NoFile} \cup {[content |-> c, stamp |-> 1] : c \in LocalContents}

Snapshot(ref, c) ==
    [ref |-> ref, syncData |-> [version |-> version, content |-> toSyncContent(c, EmptySyncContent)]]

InitPreview ==
    /\ enabled = TRUE
    /\ perPlatform \in BOOLEAN
    /\ status = "Syncing"
    /\ localFile \in PreviewFiles
    /\ fileEvent = FALSE
    /\ \E remoteContent \in Kb, lastSyncContent \in Kb \cup {NULL} :
         LET remoteUserData == Snapshot(2, remoteContent)
             lastSyncUserData == IF lastSyncContent = NULL THEN NoUserData
                                 ELSE Snapshot(1, lastSyncContent)
         IN /\ remote = [ref |-> 2, content |-> JSONstringify(remoteUserData.syncData)]
            /\ checkpoint = IF lastSyncContent = NULL THEN NoCheckpoint
                            ELSE updateLastSyncUserData(lastSyncUserData)
            /\ promises = [p \in PromiseIds |->
                              IF p = 1 THEN [FreePromise EXCEPT !.st = "pending", !.stage = "readLocal",
                                                                !.remote = remoteUserData,
                                                                !.lastSync = lastSyncUserData]
                              ELSE FreePromise]
            /\ tasks = [t \in TaskIds |->
                           IF t = 1 THEN [NewTask("sync", "awaitPreview") EXCEPT
                                              !.pid = 1, !.remote = remoteUserData,
                                              !.lastSync = lastSyncUserData]
                           ELSE FreeTask]
    /\ previewFile = NULL
    /\ backup = NoPayload
    /\ spp = 1
    /\ stops = 0
    /\ ev = NoEv
    /\ overlaps = 0
    /\ signals = NoListener
    /\ client = NoCall
    /\ cp = NoCaller

NextPreview ==
    \/ IO(\E p \in PromiseIds : GenReadLocal(p))
    \/ IO(\E p \in PromiseIds : GenWritePreview(p))
    \/ Now(\E t \in TaskIds : AwaitPreview(t))
    \/ Now(\E t \in TaskIds : ApplyAwait(t))
    \/ IO(\E t \in TaskIds : Backup(t))
    \/ IO(\E t \in TaskIds : WriteLocal(t, TRUE))
    \/ IO(\E t \in TaskIds : WriteRemote(t, TRUE))
    \/ IO(\E t \in TaskIds : DelPreview(t))
    \/ IO(\E t \in TaskIds : Checkpoint(t, TRUE))

SpecPreview == InitPreview /\ [][NextPreview]_vars

\* the serial driver on reliable I/O, with invalid local content, devices of
\* another platform and both values of sync.keybindingsPerPlatform
NextData ==
    \/ IO(\E c \in {"a", Invalid} : LocalEdit(c))
    \/ IO(\E c \in {"b"}, v \in {version}, os \in {"mine", "other"} : OtherWrite(c, v, os))
    \/ Serial(\E t \in TaskIds : \E mref \in {0} : SyncCall(t, mref))
    \/ Serial(stops = 0 /\ \E t \in TaskIds : PullCall(t))
    \/ Serial(stops = 0 /\ \E t \in TaskIds : PushCall(t))
    \/ Serial(\E t \in TaskIds : \E c \in {"b"} : AcceptCall(t, c))
    \/ Serial(stops = 0 /\ StopCall)
    \/ Serial(\E t \in TaskIds : FileChangeEvent(t))
    \/ Steps({TRUE})

SpecData == Init /\ [][NextData]_vars

\* the same driver with keybindings that have parse errors on every side: in
\* the local file, in the store (written by another device) and handed to accept
NextInvalid ==
    \/ IO(\E c \in {"a", Invalid} : LocalEdit(c))
    \/ IO(\E c \in {"b", Invalid}, v \in {version}, os \in {"mine"} : OtherWrite(c, v, os))
    \/ Serial(\E t \in TaskIds : \E mref \in {0} : SyncCall(t, mref))
    \/ Serial(stops = 0 /\ \E t \in TaskIds : PullCall(t))
    \/ Serial(stops = 0 /\ \E t \in TaskIds : PushCall(t))
    \/ Serial(\E t \in TaskIds : \E c \in {"b", Invalid} : AcceptCall(t, c))
    \/ Serial(stops = 0 /\ StopCall)
    \/ Serial(\E t \in TaskIds : FileChangeEvent(t))
    \/ Steps({TRUE})

SpecInvalid == InitPerPlatform /\ [][NextInvalid]_vars

\* the same driver with a listener on onDidChangeStatus and on the telemetry
\* service
InitListening ==
    /\ enabled = TRUE
    /\ perPlatform = TRUE
    /\ status = "Idle"
    /\ localFile = NoFile
    /\ fileEvent = FALSE
    /\ remote = [ref |-> 1, content |-> NoPayload]
    /\ checkpoint = NoCheckpoint
    /\ previewFile = NULL
    /\ backup = NoPayload
    /\ spp = 0
    /\ promises = [p \in PromiseIds |-> FreePromise]
    /\ tasks = [t \in TaskIds |-> FreeTask]
    /\ stops = 0
    /\ ev = NoEv
    /\ overlaps = 0
    /\ signals = [on |-> TRUE, fired |-> <<>>]
    /\ client = NoCall
    /\ cp = NoCaller

SpecSignals == InitListening /\ [][NextData]_vars

\* ------------------------------------------------------- the store client
\* UserDataSyncStoreService: one call at a time, cut at its awaits (the auth
\* token, the request); refs and ETags are numbers, 0 for none
ClientOps == {"read", "write", "delete", "clear", "manifest", "getAllRefs", "resolveContent"}
Statuses == {200, 204, 304, 401, 403, 404, 412, 413, 500}
ClientData == {[version |-> version, content |-> [all |-> Undef, mine |-> c, other |-> Undef]] :
                  c \in {"a", "b"}}

\* the refs a caller passes and the ETags an answer carries, 0 for none
ClientRefs == 0..2
OldValues == {NullData} \cup {[ref |-> r, content |-> d] : r \in ClientRefs \ {0}, d \in ClientData}

\* request.isSuccess
isSuccess(statusCode) == statusCode >= 200 /\ statusCode < 300

readHeadersNone(oldValue) == [ifNoneMatch |-> 0, ifMatch |-> 0]

\* read: If-None-Match is set when oldValue is given
readHeaders(oldValue) ==
    [ifNoneMatch |-> IF oldValue # NullData THEN oldValue.ref ELSE 0, ifMatch |-> 0]

\* write: If-Match is set when ref is given
writeHeaders(ref) == [ifNoneMatch |-> 0, ifMatch |-> ref]

Fail(code) == [code |-> code, value |-> NullData, tokenFailed |-> 0]
Ok(value) == [code |-> "ok", value |-> value, tokenFailed |-> 0]

requestForbiddenAsUnauthorized(res) ==
    IF ~res.ok THEN Fail("ConnectionRefused")
    ELSE IF res.statusCode \in {401, 403} THEN [Fail("Unauthorized") EXCEPT !.tokenFailed = 1]
    ELSE IF res.statusCode = 412 THEN Fail("RemotePreconditionFailed")
    ELSE IF res.statusCode = 413 THEN Fail("TooLarge")
    ELSE Ok(NullData)

\* UserDataSyncStoreService.request after the token: the errors it throws
\* itself, "ok" when it returns the context
request(res) ==
    IF ~res.ok THEN Fail("ConnectionRefused")
    ELSE IF res.statusCode = 401 THEN [Fail("Unauthorized") EXCEPT !.tokenFailed = 1]
    ELSE IF res.statusCode = 403 THEN Fail("Forbidden")
    ELSE IF res.statusCode = 412 THEN Fail("RemotePreconditionFailed")
    ELSE IF res.statusCode = 413 THEN Fail("TooLarge")
    ELSE Ok(NullData)

\* read after the request
read(oldValue, res) ==
    IF res.statusCode = 304 THEN Ok(oldValue)
    ELSE IF ~isSuccess(res.statusCode) THEN Fail("Unknown")
    ELSE IF res.etag = 0 THEN Fail("NoRef")
    ELSE Ok([ref |-> res.etag, content |-> res.body])

writeReturnsIfMatch(ref, res) ==
    IF ~isSuccess(res.statusCode) THEN Fail("Unknown")
    ELSE IF res.etag = 0 THEN Fail("NoRef")
    ELSE Ok([ref |-> ref, content |-> NoPayload])

\* write after the request: the new ref
write(ref, res) ==
    IF ~isSuccess(res.statusCode) THEN Fail("Unknown")
    ELSE IF res.etag = 0 THEN Fail("NoRef")
    ELSE Ok([ref |-> res.etag, content |-> NoPayload])

\* delete, clear, manifest, getAllRefs, resolveContent after the request
plain(res) ==
    IF ~isSuccess(res.statusCode) THEN Fail("Unknown")
    ELSE Ok([ref |-> 0, content |-> res.body])

\* the call returns or throws
Outcome(c, res) ==
    LET r == request(res) IN
    IF r.code # "ok" THEN r
    ELSE IF c.op = "read" THEN read(c.oldValue, res)
    ELSE IF c.op = "write" THEN write(c.ref, res)
    ELSE plain(res)

EngineSide == <<enabled, perPlatform, status, localFile, fileEvent, checkpoint, previewFile,
                backup, spp, promises, tasks, stops, ev, overlaps, signals, cp>>

\* a call of one of the operations, up to its await of the token
ClientCall(op, oldValue, data, ref) ==
    /\ client.pc = "done"
    /\ client' = [CallOf(op) EXCEPT
                      !.oldValue = oldValue, !.data = data, !.ref = ref,
                      !.headers = IF op = "read" THEN readHeaders(oldValue)
                                  ELSE IF op = "write" THEN writeHeaders(ref)
                                  ELSE @,
                      !.written = client.written]
    /\ UNCHANGED remote
    /\ UNCHANGED EngineSide

\* await this.authTokenService.getToken()
ClientToken(authToken) ==
    /\ client.pc = "token"
    /\ client' = IF authToken THEN [client EXCEPT !.pc = "request"]
                  ELSE [client EXCEPT !.pc = "done", !.result = Fail("Unauthorized")]
    /\ UNCHANGED remote
    /\ UNCHANGED EngineSide

\* the call resumes with the response res (or the failure of the transport);
\* stored says whether the store has taken the data of the request
Resume(res, stored) ==
    LET result == Outcome(client, res) IN
    client' = [client EXCEPT
                  !.pc = "done", !.res = res, !.result = result,
                  !.written = IF ~stored THEN @
                              ELSE IF client.op = "write" /\ client.ref = 0 /\ result.code = "ok"
                              THEN [ref |-> result.value.ref, data |-> client.data]
                              ELSE NoWrite]

Response(statusCode, etag, body) ==
    [sent |-> TRUE, ok |-> TRUE, statusCode |-> statusCode, etag |-> etag, body |-> body,
     honest |-> TRUE]

\* a store that honours the protocol answers the request
StoreAnswers ==
    /\ client.pc = "request"
    /\ UNCHANGED EngineSide
    /\ IF client.op = "read"
       THEN /\ Resume(IF client.headers.ifNoneMatch # 0 /\ client.headers.ifNoneMatch = remote.ref
                      THEN Response(304, remote.ref, NoPayload)
                      ELSE Response(200, remote.ref, remote.content), FALSE)
            /\ UNCHANGED remote
       ELSE IF client.op = "write"
       THEN IF client.headers.ifMatch # 0 /\ client.headers.ifMatch # remote.ref
            THEN Resume(Response(412, remote.ref, NoPayload), FALSE) /\ UNCHANGED remote
            ELSE /\ remote.ref < MaxRef
                 /\ remote' = [ref |-> remote.ref + 1, content |-> client.data]
                 /\ Resume(Response(200, remote.ref + 1, NoPayload), TRUE)
       ELSE IF client.op \in {"delete", "clear"}
       THEN /\ remote.ref < MaxRef
            /\ remote' = [ref |-> remote.ref + 1, content |-> NoPayload]
            /\ Resume(Response(204, 0, NoPayload), TRUE)
       ELSE Resume(Response(200, 0, remote.content), FALSE) /\ UNCHANGED remote

\* the transport fails, or the answer is any status with or without an ETag
AnyAnswer(ok, statusCode, etag, body) ==
    /\ client.pc = "request"
    /\ Resume([Response(IF ok THEN statusCode ELSE 0, IF ok THEN etag ELSE 0,
                         IF ok THEN body ELSE NoPayload)
                EXCEPT !.ok = ok, !.honest = FALSE], FALSE)
    /\ UNCHANGED remote
    /\ UNCHANGED EngineSide

\* another client writes the resource
ClientOtherWrite(data) ==
    /\ remote.ref < MaxRef
    /\ remote' = [ref |-> remote.ref + 1, content |-> data]
    /\ client' = [client EXCEPT !.written = NoWrite]
    /\ UNCHANGED EngineSide

InitClient ==
    /\ enabled = TRUE
    /\ perPlatform = TRUE
    /\ status = "Idle"
    /\ localFile = NoFile
    /\ fileEvent = FALSE
    /\ remote = [ref |-> 1, content |-> NoPayload]
    /\ checkpoint = NoCheckpoint
    /\ previewFile = NULL
    /\ backup = NoPayload
    /\ spp = 0
    /\ promises = [p \in PromiseIds |-> FreePromise]
    /\ tasks = [t \in TaskIds |-> FreeTask]
    /\ stops = 0
    /\ ev = NoEv
    /\ overlaps = 0
    /\ signals = NoListener
    /\ client = NoCall
    /\ cp = NoCaller

NextClient ==
    \/ \E oldValue \in OldValues : ClientCall("read", oldValue, NoPayload, 0)
    \/ \E data \in ClientData, ref \in ClientRefs : ClientCall("write", NullData, data, ref)
    \/ \E op \in ClientOps \ {"read", "write"} : ClientCall(op, NullData, NoPayload, 0)
    \/ \E authToken \in BOOLEAN : ClientToken(authToken)
    \/ StoreAnswers
    \/ \E ok \in BOOLEAN, statusCode \in Statuses, etag \in ClientRefs,
          body \in ClientData \cup {NoPayload} : AnyAnswer(ok, statusCode, etag, body)
    \/ \E data \in ClientData : ClientOtherWrite(data)

SpecClient == InitClient /\ [][NextClient]_vars

\* ------------------------------------------- the checkpoint functions alone
\* updateLastSyncUserData and getLastSyncUserData called on every ref and
\* syncData of a small set, versions and contents that isSyncData rejects included
CheckpointInputs ==
    {[ref |-> r, syncData |-> [version |-> v, content |-> c]] :
        r \in 1..MaxRef, v \in {0} \cup Versions,
        c \in {EmptyString} \cup {[all |-> Undef, mine |-> k, other |-> Undef] : k \in {"a", "b"}}}

CheckpointSide == <<enabled, perPlatform, status, localFile, fileEvent, remote, previewFile,
                    backup, spp, promises, tasks, stops, ev, overlaps, signals, client>>

\* await this.updateLastSyncUserData(lastSyncRemoteUserData)
UpdateLastSync(lastSyncRemoteUserData) ==
    /\ checkpoint' = updateLastSyncUserData(lastSyncRemoteUserData)
    /\ cp' = [cp EXCEPT !.op = "update", !.arg = lastSyncRemoteUserData]
    /\ UNCHANGED CheckpointSide

\* await this.getLastSyncUserData()
GetLastSync ==
    /\ cp' = [cp EXCEPT !.op = "read", !.got = getLastSyncUserData]
    /\ UNCHANGED checkpoint
    /\ UNCHANGED CheckpointSide

\* resetLocal: the checkpoint file is deleted
ResetLocal ==
    /\ checkpoint' = NoCheckpoint
    /\ cp' = [cp EXCEPT !.op = "reset", !.arg = NoUserData]
    /\ UNCHANGED CheckpointSide

NextCheckpoint ==
    \/ \E lastSyncRemoteUserData \in CheckpointInputs : UpdateLastSync(lastSyncRemoteUserData)
    \/ GetLastSync
    \/ ResetLocal

SpecCheckpoint == InitClient /\ [][NextCheckpoint]_vars

\* ------------------------------------- data stored by an earlier version
\* the checkpoint file and the store hold payloads of the older format or of
\* the current one when the engine starts
BareContents ==
    {EmptySyncContent, NotJson,
     [all |-> Undef, mine |-> "a", other |-> "b"],
     [all |-> "a", mine |-> "a", other |-> Undef]}

StoredPayloads ==
    {[version |-> Bare, content |-> c] : c \in BareContents}
    \cup {JSONstringify([version |-> version, content |-> [all |-> Undef, mine |-> "b", other |-> Undef]])}

\* await this.getRemoteUserData(null)
GetRemote ==
    /\ cp' = [cp EXCEPT !.op = "remote", !.got = getRemoteUserData(NoUserData)]
    /\ UNCHANGED checkpoint
    /\ UNCHANGED CheckpointSide

InitMigration ==
    /\ enabled = TRUE
    /\ perPlatform \in BOOLEAN
    /\ status = "Idle"
    /\ localFile = NoFile
    /\ fileEvent = FALSE
    /\ remote \in {[ref |-> r, content |-> c] : r \in 1..2, c \in {NoPayload} \cup StoredPayloads}
    /\ checkpoint \in {NoCheckpoint} \cup {[ref |-> r, content |-> c] : r \in 1..2, c \in StoredPayloads}
    /\ previewFile = NULL
    /\ backup = NoPayload
    /\ spp = 0
    /\ promises = [p \in PromiseIds |-> FreePromise]
    /\ tasks = [t \in TaskIds |-> FreeTask]
    /\ stops = 0
    /\ ev = NoEv
    /\ overlaps = 0
    /\ signals = NoListener
    /\ client = NoCall
    /\ cp = NoCaller

NextMigration ==
    \/ GetLastSync
    \/ GetRemote

SpecMigration == InitMigration /\ [][NextMigration]_vars

\* -------------------------------------- sync() on data stored beforehand
\* sync() alone on reliable stores, from checkpoint files that are missing,
\* unparsable or in place, with a readFile of the checkpoint that may fail
SyncedWith(c) == JSONstringify([version |-> version, content |-> toSyncContent(c, EmptySyncContent)])

InitStored ==
    /\ enabled = TRUE
    /\ perPlatform = TRUE
    /\ status = "Idle"
    /\ localFile \in {NoFile, [content |-> "a", stamp |-> 0]}
    /\ fileEvent = FALSE
    /\ remote \in {[ref |-> 1, content |-> c] : c \in {NoPayload, SyncedWith("a"), SyncedWith("b")}}
    /\ checkpoint \in {NoCheckpoint,
                       [ref |-> 1, content |-> [version |-> Bare, content |-> NotJson]]}
                      \cup (IF remote.content = NoPayload THEN {} ELSE {remote})
    /\ previewFile = NULL
    /\ backup = NoPayload
    /\ spp = 0
    /\ promises = [p \in PromiseIds |-> FreePromise]
    /\ tasks = [t \in TaskIds |-> FreeTask]
    /\ stops = 0
    /\ ev = NoEv
    /\ overlaps = 0
    /\ signals = NoListener
    /\ client = NoCall
    /\ cp = NoCaller

NextStored ==
    \/ IO(\E c \in {"b"} : LocalEdit(c))
    \/ IO(\E c \in {"b"}, v \in {version}, os \in {"mine"} : OtherWrite(c, v, os))
    \/ Serial(\E t \in TaskIds : \E mref \in {0} : SyncCall(t, mref))
    \/ IO(\E t \in TaskIds : ReadLastSync(t))
    \/ IO(\E t \in TaskIds : ReadLastSyncUnreadable(t))
    \/ IO(\E t \in TaskIds : ReadRemote(t, TRUE))
    \/ IO(\E t \in TaskIds : Refetch(t, TRUE))
    \/ IO(\E p \in PromiseIds : GenReadLocal(p))
    \/ IO(\E p \in PromiseIds : GenWritePreview(p))
    \/ Now(\E t \in TaskIds : AwaitPreview(t))
    \/ Now(\E t \in TaskIds : ApplyAwait(t))
    \/ IO(\E t \in TaskIds : Backup(t))
    \/ IO(\E t \in TaskIds : WriteLocal(t, TRUE))
    \/ IO(\E t \in TaskIds : WriteRemote(t, TRUE))
    \/ IO(\E t \in TaskIds : DelPreview(t))
    \/ IO(\E t \in TaskIds : Checkpoint(t, TRUE))

SpecStored == InitStored /\ [][NextStored]_vars

\* overlapping calls, on reliable I/O
NextConc ==
    \/ IO(\E c \in {"a"} : LocalEdit(c))
    \/ IO(\E c \in {"b"}, v \in {version}, os \in {"mine"} : OtherWrite(c, v, os))
    \/ Overlap(\E t \in TaskIds : \E mref \in {0} : SyncCall(t, mref))
    \/ Overlap(stops = 0 /\ \E t \in TaskIds : PullCall(t))
    \/ Overlap(stops = 0 /\ \E t \in TaskIds : PushCall(t))
    \/ Overlap(\E t \in TaskIds : \E c \in {"b"} : AcceptCall(t, c))
    \/ Overlap(stops = 0 /\ StopCall)
    \/ Overlap(\E t \in TaskIds : FileChangeEvent(t))
    \/ Steps({TRUE})

SpecConc == InitPerPlatform /\ [][NextConc]_vars

\* ------------------------------------------------------------------ claims
\* task t takes a step of its own
Steps_(t) == tasks[t].op # "none" /\ tasks'[t].pc # tasks[t].pc

\* C1: the remote write of a sync() cycle changes the store only when the
\* store's ref is still the ref of the snapshot the cycle's preview was merged
\* from (the If-Match of the write), and that snapshot held the content the
\* store holds; a write that finds the store changed since the snapshot leaves
\* it unchanged and sends the cycle to the re-fetch of doSync.
C1_SyncWriteIsConditional ==
    [][\A t \in TaskIds :
          (tasks[t].op = "sync" /\ tasks[t].pc = "writeRemote" /\ Steps_(t)) =>
              LET snapshot == promises[tasks[t].pid].remote IN
              /\ remote' # remote =>
                    /\ snapshot.ref = remote.ref
                    /\ tasks[t].aremote = snapshot
                    /\ SnapshotKb(snapshot) = RemoteKb(remote.content)
              /\ snapshot.ref # remote.ref =>
                    /\ remote' = remote
                    /\ tasks'[t].pc = "refetch" \/ ev'.res = "StoreError"]_vars

C1_Witness ==
    \E t \in TaskIds :
        /\ tasks[t].op = "sync" /\ tasks[t].pc = "refetch"
        /\ RemoteKb(remote.content) = "b"
        /\ LocalKb = "a"

\* a cycle with a write of the local file, the store or the checkpoint pending
PendingWrite(t) == tasks[t].pc \in {"writeLocal", "writeRemote", "checkpoint"}

\* C2: no two cycles of the synchroniser have a local write, a remote write or
\* a checkpoint update pending at the same time.
C2_OneCycleInFlight ==
    \A t, u \in TaskIds : t # u => ~(PendingWrite(t) /\ PendingWrite(u))

SyncCalled ==
    \/ ev'.op = "sync" /\ ev'.res = "skipped"
    \/ \E t \in TaskIds : tasks[t].op = "none" /\ tasks'[t].op = "sync"

\* C3: a sync() call made while the resource is disabled or the status is
\* Syncing or HasConflicts returns at once: no call is left in flight to read
\* or write anything, and the status, the pending preview, the local file,
\* the store, the preview resource, the checkpoint and the backup are as before.
C3_SkippedSyncTouchesNothing ==
    [][(SyncCalled /\ (~enabled \/ status \in {"Syncing", "HasConflicts"})) =>
           /\ ev' = Event("sync", "skipped")
           /\ UNCHANGED <<status, spp, promises, tasks, localFile, remote, previewFile,
                          checkpoint, backup>>]_vars

C3_Witness ==
    /\ ev = Event("sync", "skipped")
    /\ status = "HasConflicts"
    /\ spp # 0 /\ promises[spp].st = "resolved"
    /\ previewFile # NULL

\* C4: a sync() made right after a sync() that returned from its apply with
\* the status Idle, with no change of the file or the store by anybody else
\* since that first call was made, writes neither the local file nor the store
\* nor the backup, and leaves the checkpoint as it was.
C4_SecondSyncWritesNothing ==
    [][\A t \in TaskIds :
          (tasks[t].after = "sync" /\ Steps_(t)) =>
              UNCHANGED <<localFile, remote, backup, checkpoint>>]_vars

\* C5: a sync() made right after a call of sync, pull, push or accept that
\* returned from its apply, with no change by anybody else since that call was
\* made, finds the same keybindings in the local file, the store and the
\* checkpoint, and writes none of the three.
C5_SyncAfterApplyIsNoOp ==
    [][\A t \in TaskIds :
          /\ (tasks[t].op = "none" /\ tasks'[t].after \in {"sync", "pull", "push", "accept"}) =>
                 (LocalKb = RemoteKb(remote.content) /\ LocalKb = CheckpointKb)
          /\ (tasks[t].after \in {"sync", "pull", "push", "accept"} /\ Steps_(t)) =>
                 UNCHANGED <<localFile, remote, checkpoint>>]_vars

C7_SyncNeverSurfaces412 == ~(ev.op = "sync" /\ ev.res = "RemotePreconditionFailed")

C7_Witness ==
    \E t \in TaskIds :
        /\ tasks[t].op = "sync" /\ tasks[t].retries > 0
        /\ tasks[t].pc = "awaitPreview"
        /\ tasks[t].remote.ref = remote.ref /\ remote.ref > 1
        /\ localFile.stamp = 1

\* C8: a sync() call retries its reconciliation only if somebody else changed
\* the store or the local file while the call was running.
C8_RetryNeedsInterference ==
    \A t \in TaskIds :
        (tasks[t].op = "sync" /\ tasks[t].retries > 0) => tasks[t].interfered

\* the next step of task t is a read that hands its snapshot to doSync
HandsOver(t) ==
    \/ tasks[t].pc \in {"readRemote", "refetch"}
    \/ tasks[t].pc = "readLast" /\ tasks[t].mref # 0 /\ getLastSyncUserData.ref = tasks[t].mref

Handed(t) ==
    IF tasks[t].pc = "refetch" THEN getRemoteUserData(NoUserData)
    ELSE IF tasks[t].pc = "readLast" THEN getLastSyncUserData
    ELSE getRemoteUserData(tasks[t].lastSync)

\* C9: when a read of sync(), the first, the checkpoint taken for the ref the
\* caller named, or the re-fetch of the retry, hands
\* doSync a snapshot of a version above the engine's, the call ends with
\* Incompatible in that step: no preview promise is made, and the local file,
\* the store, the preview resource and the checkpoint are unchanged.
C9_IncompatibleBeforePreview ==
    [][\A t \in TaskIds :
          (/\ tasks[t].op = "sync" /\ HandsOver(t)
           /\ Steps_(t) /\ ev'.res # "StoreError"
           /\ Handed(t).syncData.version > version) =>
              /\ ev'.op = "sync" /\ ev'.res = "Incompatible"
              /\ tasks'[t] = FreeTask
              /\ UNCHANGED <<localFile, remote, previewFile, checkpoint, spp, promises>>]_vars

C9_Witness ==
    /\ ev.op = "sync" /\ ev.res = "Incompatible" /\ ev.retries > 0
    /\ remote.content.version > version

\* C10: a call that has read a remote snapshot of a version above the
\* engine's writes neither the local file nor the store nor the checkpoint.
C10_IncompatibleNeverWritten ==
    [][\A t \in TaskIds :
          (tasks[t].remote.syncData.version > version /\ Steps_(t)) =>
              UNCHANGED <<localFile, remote, checkpoint>>]_vars

ConflictsPending == spp # 0 /\ promises[spp].st = "resolved" /\ promises[spp].hasConflicts

\* C12: a sync() call whose preview reports conflicts returns with the status
\* HasConflicts and the preview resource holding the preview's content, having
\* written neither the local file nor the store; and while such a preview is
\* pending, only accept, pull, push or the re-sync on a file change write the
\* local file, the store, the backup or the checkpoint.
C12_ConflictsWriteNothing ==
    [][/\ \A t \in TaskIds :
            (tasks[t].op = "sync" /\ tasks'[t].op = "none" /\ ev'.res = "conflicts") =>
                /\ status' = "HasConflicts"
                /\ previewFile' = promises[tasks[t].pid].content
                /\ tasks[t].wrote = 0 /\ ~tasks[t].wroteLocal
                /\ UNCHANGED <<localFile, remote, backup, checkpoint>>
       /\ (ConflictsPending /\ (\E t \in TaskIds : Steps_(t))
             /\ <<localFile, remote, backup, checkpoint>>' # <<localFile, remote, backup, checkpoint>>) =>
                \E t \in TaskIds : Steps_(t) /\ tasks[t].op \in {"accept", "pull", "push", "resync"}]_vars

\* C13: an accept(content) call that was made in the status HasConflicts ends,
\* unless a read or a write fails, with the local file and the store holding
\* content, the store written by the call whatever it held, the checkpoint
\* holding (the ref that write returned, content), no preview pending and the
\* status Idle.
C13_AcceptAppliesContent ==
    [][\A t \in TaskIds :
          (tasks[t].op = "accept" /\ tasks'[t].op = "none") =>
              /\ ev'.res \in {"ok", "StoreError", "LocalError"}
              /\ ev'.res = "ok" =>
                    /\ status' = "Idle" /\ spp' = 0
                    /\ localFile'.content = tasks[t].content
                    /\ tasks[t].wrote # 0
                    /\ checkpoint'.ref = tasks[t].wrote
                    /\ RemoteKb(checkpoint'.content) = tasks[t].content]_vars

AcceptCalled ==
    \/ ev'.op = "accept" /\ ev'.res = "skipped"
    \/ \E t \in TaskIds : tasks[t].op = "none" /\ tasks'[t].op = "accept"

\* C14: an accept() call made while the status is Idle or Syncing returns at
\* once: it leaves no call in flight, and the status, the pending preview and
\* its promise, the local file, the store, the preview resource, the
\* checkpoint and the backup are as before.
C14_AcceptOutsideConflictsTouchesNothing ==
    [][(AcceptCalled /\ status \in {"Idle", "Syncing"}) =>
           /\ ev' = Event("accept", "skipped")
           /\ UNCHANGED <<status, spp, promises, tasks, localFile, remote, previewFile,
                          checkpoint, backup>>]_vars

C14_Witness ==
    /\ ev = Event("accept", "skipped")
    /\ status = "Syncing"
    /\ spp # 0 /\ promises[spp].st = "pending"

\* the inputs of the preview generation that promise p is about to run
PreviewLocal == IF localFile = NoFile THEN EmptyKb ELSE localFile.content

Generates(p) ==
    promises[p].st = "pending" /\ promises[p].stage = "readLocal" /\ promises'[p] # promises[p]

\* the four cases of the preview for local content l, remote content r, base b
PreviewCases(l, r, b, out) ==
    /\ (l = b /\ b # r) =>
          /\ out.st = "pending" /\ out.content = r
          /\ ~out.hasConflicts /\ out.hasLocalChanged /\ ~out.hasRemoteChanged
    /\ (r = b /\ b # l) =>
          /\ out.st = "pending" /\ out.content = l
          /\ ~out.hasConflicts /\ ~out.hasLocalChanged /\ out.hasRemoteChanged
    /\ (l # b /\ b # r /\ r # l /\ merge(l, r, b).hasConflicts) =>
          /\ out.st = "pending"
          /\ out.hasConflicts /\ out.hasLocalChanged /\ out.hasRemoteChanged
    /\ (l = r /\ r = b) =>
          /\ out.st = "resolved" /\ out.content = NULL
          /\ ~out.hasLocalChanged /\ ~out.hasRemoteChanged
          /\ ~needsMerge(l, r, b)

PushEffects(t, endings) ==
    (tasks[t].op = "push" /\ Steps_(t)) =>
        /\ localFile' = localFile
        /\ tasks[t].pc = "writeRemote" =>
              /\ remote'.ref # remote.ref
              /\ RemoteKb(remote'.content) = tasks[t].file.content
        /\ tasks'[t].op = "none" =>
              /\ status' = "Idle"
              /\ ev'.res \in endings
              /\ ev'.res = "nothing" =>
                    /\ tasks[t].pc = "pushReadLocal" /\ localFile = NoFile
                    /\ UNCHANGED <<remote, checkpoint>>
              /\ ev'.res = "ok" =>
                    /\ tasks[t].wrote # 0
                    /\ checkpoint'.ref = tasks[t].wrote
                    /\ RemoteKb(checkpoint'.content) = tasks[t].file.content
              /\ ev'.res = "LocalInvalidContent" =>
                    /\ hasErrors(tasks[t].file.content)
                    /\ tasks[t].wrote = 0 /\ UNCHANGED <<remote, checkpoint>>

\* C17 as stated: a push() call never changes the local file; its write of
\* the store succeeds whatever the store's ref is and stores the content read
\* from the file; the call ends with the status Idle, either with the
\* checkpoint holding (the ref the write returned, that content) or, when
\* there is no local file, straight after the read of the file with the store
\* and the checkpoint untouched.
C17_PushReplacesRemoteAnyFile ==
    [][\A t \in TaskIds : PushEffects(t, {"ok", "nothing"})]_vars

\* C17 amended: the same, except that a push() of a local file with parse
\* errors ends with LocalInvalidContent and has written nothing.
C17_PushReplacesRemote ==
    [][\A t \in TaskIds : PushEffects(t, {"ok", "nothing", "LocalInvalidContent"})]_vars

C17_Witness ==
    /\ ev.op = "push" /\ ev.res = "ok" /\ ev.interfered
    /\ checkpoint.ref = remote.ref /\ remote.ref = MaxRef
    /\ RemoteKb(remote.content) = "a"

\* C18: when a stop() call completes, it returns normally, the status is Idle,
\* no preview is pending, the preview resource is gone unless its deletion
\* failed, and the step has written neither the local file nor the store nor
\* the checkpoint.
C18_StopLeavesIdleAndNoPreview ==
    [][stops' < stops =>
          /\ ev'.op = "stop" /\ ev'.res \in {"ok", "undeleted"}
          /\ status' = "Idle"
          /\ spp' = 0
          /\ ev'.res = "ok" => previewFile' = NULL
          /\ UNCHANGED <<localFile, remote, checkpoint>>]_vars

\* C19: a sync() call that was in flight when stop() was called writes
\* nothing from then on: not the backup, the local file, the store or the
\* checkpoint, and the preview generation it started, once cancelled, does
\* not write the preview resource.
C19_StoppedCycleWritesNothing ==
    [][/\ \A t \in TaskIds :
            (tasks[t].op = "sync" /\ tasks[t].stopped /\ Steps_(t)) =>
                UNCHANGED <<backup, localFile, remote, checkpoint>>
       /\ \A p \in PromiseIds :
            (promises[p].st = "rejected" /\ promises[p].stage = "writePreview"
             /\ promises'[p] # promises[p]) =>
                UNCHANGED previewFile]_vars

\* C20: a local write of a sync() call that finds the file changed since the
\* preview read it ends the call with LocalPreconditionFailed, and a sync()
\* call re-runs its reconciliation only after a remote write was answered
\* RemotePreconditionFailed.
C20_LocalPreconditionPropagates ==
    [][\A t \in TaskIds :
          (tasks[t].op = "sync" /\ Steps_(t)) =>
              /\ (tasks[t].pc = "writeLocal" /\ ~LocalPrecondition(promises[tasks[t].pid].file)
                   /\ ev'.res # "LocalError") =>
                      /\ tasks'[t].op = "none"
                      /\ ev'.op = "sync" /\ ev'.res = "LocalPreconditionFailed"
              /\ (tasks'[t].op = "sync" /\ tasks'[t].retries > tasks[t].retries) =>
                      /\ tasks[t].pc = "writeRemote"
                      /\ tasks'[t].pc = "refetch"]_vars

\* the local write of task t is refused as the caller of apply sees it:
\* pull, push and accept end with the error, sync and the file-change re-sync
\* catch it in performSync
RefusedLocalWrite(t) ==
    /\ localFile' = localFile
    /\ \/ tasks'[t].op = "none" /\ ev'.res = "LocalPreconditionFailed"
       \/ /\ tasks[t].op \in {"sync", "resync"}
          /\ tasks'[t].op = tasks[t].op /\ tasks'[t].retries = tasks[t].retries + 1

\* C21: the local write of apply replaces the file only when the file is the
\* one the preview read (same content, same modification stamp, or no file
\* both times); when the file was modified or created in between, the write
\* fails with LocalPreconditionFailed and the file keeps the content written
\* by the other party.
C21_LocalWriteNeedsFileAsRead ==
    [][\A t \in TaskIds :
          (At(t, "writeLocal") /\ Steps_(t)) =>
              /\ localFile' # localFile => localFile = promises[tasks[t].pid].file
              /\ (localFile # promises[tasks[t].pid].file /\ ev'.res # "LocalError") =>
                     RefusedLocalWrite(t)]_vars

C21_Witness ==
    /\ ev.op = "pull" /\ ev.res = "LocalPreconditionFailed" /\ ev.interfered
    /\ localFile.content = "a" /\ RemoteKb(remote.content) = "b"

\* C22: the checkpoint changes only in the last step of an apply, the step in
\* which the call that runs it returns normally; a sync() call that ends with
\* an error has therefore left the checkpoint as it was when the call started.
C22_CheckpointOnlyOnSuccess ==
    [][checkpoint' # checkpoint =>
          \E t \in TaskIds :
              /\ At(t, "checkpoint")
              /\ tasks'[t].op = "none"
              /\ ev'.op = tasks[t].op /\ ev'.res = "ok"]_vars

C22_Witness ==
    /\ ev.op = "sync" /\ ev.res = "LocalError"
    /\ backup # NoPayload /\ checkpoint # NoCheckpoint /\ checkpoint.ref # remote.ref

\* C27: the status is never outside Idle, Syncing and HasConflicts, and a step
\* changes it only from Idle to Syncing, from Syncing to Idle or HasConflicts,
\* or from HasConflicts to Idle.
C27_StatusMoves ==
    [][/\ status' \in SyncStatus
       /\ status' # status =>
              <<status, status'>> \in {<<"Idle", "Syncing">>, <<"Syncing", "Idle">>,
                                       <<"Syncing", "HasConflicts">>, <<"HasConflicts", "Idle">>}]_vars

\* C29: when a sync() call goes from its wait for the preview into apply, the
\* preview it hands over was generated from the remote snapshot and the
\* last-sync data of this call.
C29_SyncAppliesItsOwnPreview ==
    [][\A t \in TaskIds :
          (tasks[t].op = "sync" /\ At(t, "awaitPreview") /\ Steps_(t)
           /\ tasks'[t].op = "sync" /\ tasks'[t].pc = "applyAwait") =>
              /\ promises[tasks'[t].pid].remote = tasks[t].remote
              /\ promises[tasks'[t].pid].lastSync = tasks[t].lastSync]_vars

\* a file-change event is delivered to onFileChanges
Delivered == fileEvent /\ ~fileEvent'

\* the re-run that onFileChanges starts from the pending preview result: doSync
\* with the snapshot and the last-sync data of that preview, a new preview
\* generation as its first await
Rerun(t, result) ==
    \/ tasks'[t].op = "none" /\ ev'.op = "resync" /\ ev'.res = "Incompatible"
    \/ /\ tasks'[t].op = "resync" /\ tasks'[t].pc = "awaitPreview"
       /\ tasks'[t].remote = result.remote /\ tasks'[t].lastSync = result.lastSync
       /\ spp' # 0 /\ spp' = tasks'[t].pid
       /\ promises'[spp'].st = "pending" /\ promises'[spp'].stage = "readLocal"
       /\ promises'[spp'].remote = result.remote /\ promises'[spp'].lastSync = result.lastSync

\* C28: a file-change event delivered while the resource is disabled changes
\* nothing; delivered while the status is not HasConflicts it fires the
\* local-change event and starts nothing; delivered while the status is
\* HasConflicts it starts a re-run on the pending preview, which discards that
\* preview, runs doSync on its snapshot and last-sync data without a remote
\* read, and leaves the status at the result of the run.
C28_FileChangeReaction ==
    [][/\ (Delivered /\ ~enabled) =>
              ev' = NoEv /\ UNCHANGED <<tasks, spp, promises, status>>
       /\ (Delivered /\ enabled /\ status # "HasConflicts") =>
              ev' = Event("file", "changed") /\ UNCHANGED <<tasks, spp, promises, status>>
       /\ (Delivered /\ enabled /\ status = "HasConflicts") =>
              \E t \in TaskIds : /\ tasks[t].op = "none" /\ tasks'[t].op = "resync"
                                  /\ spp # 0 /\ tasks'[t].pid = spp
       /\ \A t \in TaskIds :
              /\ (At(t, "resyncAwait") /\ Steps_(t) /\ promises[tasks[t].pid].st = "resolved") =>
                     Rerun(t, promises[tasks[t].pid])
              /\ (tasks[t].op = "resync" /\ tasks'[t].op = "none") =>
                     /\ ev'.res \in {"ok", "nothing"} => status' = "Idle"
                     /\ ev'.res = "conflicts" => status' = "HasConflicts"]_vars

\* C26: every call of setStatus made in a step hands its listeners one
\* status-changed event when it changes the status and none when it does not,
\* one conflicts-detected signal exactly when it changes the status to
\* HasConflicts, and one conflicts-resolved signal exactly when it changes the
\* status from HasConflicts to Idle; the status changes through these calls only.
C26_SignalsFollowTransitions ==
    [][LET f == signals'.fired IN
       /\ \A i \in DOMAIN f :
              /\ f[i].changed = (IF f[i].from # f[i].to THEN 1 ELSE 0)
              /\ f[i].conflictsDetected =
                     (IF f[i].from # "HasConflicts" /\ f[i].to = "HasConflicts" THEN 1 ELSE 0)
              /\ f[i].conflictsResolved =
                     (IF f[i].from = "HasConflicts" /\ f[i].to = "Idle" THEN 1 ELSE 0)
       /\ f = <<>> => status' = status
       /\ f # <<>> =>
              /\ f[1].from = status /\ f[Len(f)].to = status'
              /\ \A i \in 1..(Len(f) - 1) : f[i].to = f[i + 1].from]_vars

C26_Witness ==
    /\ signals.fired # <<>>
    /\ signals.fired[1].from = "HasConflicts" /\ signals.fired[1].conflictsResolved = 1
    /\ ev.op = "accept" /\ ev.res = "ok"

\* C23: a call of the store client that has got a response, or whose request
\* failed in the transport, ends as the response says: ConnectionRefused for a
\* failed transport, Unauthorized with one call of sendTokenFailed for 401,
\* Forbidden for 403, RemotePreconditionFailed for 412, TooLarge for 413, NoRef
\* for a 2xx answer to read or write without an ETag, Unknown for every other
\* status outside 2xx except 304 answered to a read; sendTokenFailed is called
\* for no other response.
C23_OutcomeByResponse ==
    (client.pc = "done" /\ client.res.sent) =>
        LET res == client.res
            code == client.result.code
            statusCode == res.statusCode
        IN /\ client.result.tokenFailed = (IF res.ok /\ statusCode = 401 THEN 1 ELSE 0)
           /\ ~res.ok => code = "ConnectionRefused"
           /\ res.ok =>
                 /\ statusCode = 401 => code = "Unauthorized"
                 /\ statusCode = 403 => code = "Forbidden"
                 /\ statusCode = 412 => code = "RemotePreconditionFailed"
                 /\ statusCode = 413 => code = "TooLarge"
                 /\ (statusCode \in 200..299 /\ client.op \in {"read", "write"} /\ res.etag = 0) =>
                        code = "NoRef"
                 /\ (statusCode \notin (200..299) \cup {401, 403, 412, 413}
                     /\ ~(statusCode = 304 /\ client.op = "read")) => code = "Unknown"

C23_Witness ==
    /\ client.pc = "done" /\ client.op = "manifest"
    /\ client.res.ok /\ client.res.statusCode = 401
    /\ client.result.code = "Unauthorized" /\ client.result.tokenFailed = 1

\* C24: a read carries If-None-Match, with the ref of previousData, exactly
\* when previousData is given, and a read answered 304 returns previousData,
\* whatever ETag and body the answer carries.
C24_ReadNotModified ==
    client.op = "read" =>
        /\ client.headers.ifNoneMatch = (IF client.oldValue = NullData THEN 0 ELSE client.oldValue.ref)
        /\ (client.pc = "done" /\ client.res.ok /\ client.res.statusCode = 304) =>
               client.result.code = "ok" /\ client.result.value = client.oldValue

C24_Witness ==
    /\ client.op = "read" /\ client.pc = "done"
    /\ client.res.ok /\ client.res.statusCode = 304
    /\ client.oldValue # NullData
    /\ client.res.etag \notin {0, client.oldValue.ref}
    /\ client.res.body \notin {NoPayload, client.oldValue.content}
    /\ client.result.value = client.oldValue

\* C25: a read without previousData that a protocol-honouring store answers
\* while it still holds the data of a write made without If-Match returns that
\* data and the ref that write returned, which is not empty.
C25_WriteReadRoundTrip ==
    (client.op = "read" /\ client.pc = "done" /\ client.oldValue = NullData
     /\ client.res.honest /\ client.written # NoWrite) =>
        /\ client.result.code = "ok"
        /\ client.result.value.content = client.written.data
        /\ client.result.value.ref = client.written.ref
        /\ client.result.value.ref # 0

C25_Witness ==
    /\ client.op = "read" /\ client.pc = "done" /\ client.oldValue = NullData
    /\ client.res.honest /\ client.written # NoWrite
    /\ client.result.value = [ref |-> 3, content |-> client.written.data]

C31_OldFormatIsMigrated ==
    /\ (cp.op = "read" /\ checkpoint # NoCheckpoint /\ checkpoint.content.version = Bare) =>
           cp.got = [ref |-> checkpoint.ref,
                     syncData |-> [version |-> version, content |-> checkpoint.content.content]]
    /\ (cp.op = "remote" /\ remote.content # NoPayload /\ remote.content.version = Bare) =>
           cp.got = [ref |-> remote.ref,
                     syncData |-> [version |-> version, content |-> remote.content.content]]

\* the checkpoint read of call t ends in the catch of getLastSyncUserData
FailedRead(t) ==
    /\ At(t, "readLast") /\ tasks'[t].pc # "readLast"
    /\ \/ checkpoint = NoCheckpoint
       \/ parseSyncData(checkpoint.content) = NoSyncData
       \/ tasks'[t].unreadable

\* C32: getLastSyncUserData never throws: with the checkpoint file missing,
\* unreadable or unparsable it returns null, the sync cycle goes on to read
\* the remote with no previous data and generates its preview with no merge
\* base, and the failed read leaves the checkpoint file as it was.
C32_FailedCheckpointReadIsNull ==
    [][\A t \in TaskIds :
          /\ FailedRead(t) =>
                /\ tasks'[t].op = tasks[t].op
                /\ tasks'[t].lastSync = NoUserData
                /\ tasks'[t].pc = "readRemote"
                /\ checkpoint' = checkpoint
          /\ (At(t, "readRemote") /\ tasks[t].op = "sync" /\ tasks[t].lastSync = NoUserData
               /\ tasks'[t].pc = "awaitPreview") =>
                /\ tasks'[t].remote = getRemoteUserData(NoUserData)
                /\ promises'[tasks'[t].pid].lastSync = NoUserData]_vars

C32_Witness ==
    \E t \in TaskIds :
        /\ tasks[t].op = "sync" /\ tasks[t].pc = "awaitPreview"
        /\ checkpoint # NoCheckpoint /\ parseSyncData(checkpoint.content) = NoSyncData
        /\ tasks[t].lastSync = NoUserData
        /\ promises[tasks[t].pid].st = "resolved"
        /\ promises[tasks[t].pid].lastSync = NoUserData

\* what the store holds now, as getRemoteUserData returns it on a 200
StoreSnapshot ==
    [ref |-> remote.ref,
     syncData |-> IF remote.content = NoPayload THEN NoSyncData ELSE parseSyncData(remote.content)]

\* C33: after a RemotePreconditionFailed the rejected preview is discarded, the
\* remote is read again with no previous data, and the reconciliation that
\* follows generates a new preview from that snapshot of the store, the
\* last-sync data the call already had and a new read of the local file.
C33_RefetchAfterRemotePrecondition ==
    [][\A t \in TaskIds :
          /\ (At(t, "writeRemote") /\ tasks'[t].pc = "refetch") => spp' = 0
          /\ (At(t, "refetch") /\ tasks'[t].pc = "awaitPreview") =>
                /\ tasks'[t].remote = StoreSnapshot
                /\ tasks'[t].lastSync = tasks[t].lastSync
                /\ spp' = tasks'[t].pid
                /\ promises'[spp'] = [FreePromise EXCEPT !.st = "pending", !.stage = "readLocal",
                                                         !.remote = StoreSnapshot,
                                                         !.lastSync = tasks[t].lastSync]
          /\ \A p \in PromiseIds :
                (tasks[t].retries > 0 /\ tasks[t].pid = p /\ promises[p].stage = "readLocal"
                 /\ promises'[p].stage # "readLocal" /\ promises'[p].st # "rejected") =>
                    promises'[p].file = localFile]_vars

C33_Witness ==
    \E t \in TaskIds :
        /\ tasks[t].op = "sync" /\ tasks[t].retries > 0 /\ tasks[t].pc = "awaitPreview"
        /\ tasks[t].remote = StoreSnapshot /\ tasks[t].remote.ref > tasks[t].lastSync.ref
        /\ tasks[t].lastSync # NoUserData
        /\ promises[tasks[t].pid].st = "resolved"
        /\ promises[tasks[t].pid].remote = StoreSnapshot
        /\ promises[tasks[t].pid].file = localFile

\* C34: whenever apply changes the local file, the snapshot the backup store
\* has received from it is the content the file had before the change, and
\* the backup is complete when the file is written.
C34_BackupHoldsReplacedContent ==
    [][\A t \in TaskIds :
          (At(t, "writeLocal") /\ tasks'[t].wroteLocal /\ localFile # NoFile) =>
              backup = backupLocal(toSyncContent(localFile.content, EmptySyncContent))]_vars

\* C35: content with parse errors is never merged and never written: a preview
\* generated against remote content from an invalid local file fails before the
\* merge, every content an operation writes to the local file or to the store
\* is free of parse errors, and an operation whose content has parse errors
\* fails with LocalInvalidContent having written neither file, store nor
\* checkpoint.
C35_InvalidContentNeverWritten ==
    [][/\ \A p \in PromiseIds :
            (promises[p].stage = "readLocal" /\ promises[p].st = "pending"
             /\ promises'[p].stage # "readLocal"
             /\ localFile.content = Invalid /\ SnapshotKb(promises[p].remote) # NULL) =>
                promises'[p] = RejectedPromise("LocalInvalidContent")
       /\ \A t \in TaskIds :
            /\ (At(t, "writeLocal") /\ tasks'[t].wroteLocal) => localFile'.content # Invalid
            /\ (At(t, "writeRemote") /\ tasks'[t].wrote # 0) => RemoteKb(remote'.content) # Invalid
            /\ (At(t, "applyAwait") /\ tasks'[t].pc # "applyAwait"
                 /\ promises[tasks[t].pid].content = Invalid) =>
                    /\ ev'.op = tasks[t].op /\ ev'.res = "LocalInvalidContent"
                    /\ tasks'[t] = FreeTask
            /\ (tasks[t].op # "none" /\ tasks'[t] = FreeTask /\ ev'.res = "LocalInvalidContent") =>
                    /\ ~tasks[t].wroteLocal /\ tasks[t].wrote = 0
                    /\ UNCHANGED <<localFile, remote, checkpoint>>]_vars

C35_Witness ==
    /\ ev.op = "accept" /\ ev.res = "LocalInvalidContent"
    /\ localFile.content = "a" /\ RemoteKb(remote.content) = "b"
    /\ status = "HasConflicts"

\* a sync() that found no checkpoint and nothing remote returns in this step,
\* and nobody else has touched the file or the store while it ran
FirstSyncReturns(t) ==
    /\ tasks[t].op = "sync" /\ tasks'[t] = FreeTask
    /\ tasks[t].pc # "readLast" /\ tasks[t].pc # "readRemote"
    /\ tasks[t].lastSync = NoUserData /\ tasks[t].remote.syncData = NoSyncData
    /\ tasks[t].retries = 0 /\ ~tasks[t].interfered

\* C36: a first sync() that finds nothing remote and a valid local file writes
\* the local content to the store with If-Match set to the ref its read
\* returned, leaves the local file as it is, sets the checkpoint to the ref the
\* write returned and the local content, and ends Idle; with no local file
\* either, it writes nothing and creates no checkpoint.
C36_FirstSyncNothingRemote ==
    [][\A t \in TaskIds :
          /\ (At(t, "writeRemote") /\ tasks'[t].wrote # 0 /\ tasks[t].op = "sync"
               /\ tasks[t].remote.syncData = NoSyncData /\ tasks[t].retries = 0) =>
                  /\ ~tasks[t].force
                  /\ tasks[t].aremote.ref = tasks[t].remote.ref
                  /\ remote.ref = tasks[t].remote.ref
          /\ (FirstSyncReturns(t) /\ localFile # NoFile /\ localFile.content # Invalid) =>
                  /\ ev'.res = "ok" /\ status' = "Idle"
                  /\ tasks[t].wrote = remote.ref /\ RemoteKb(remote.content) = localFile.content
                  /\ ~tasks[t].wroteLocal /\ localFile' = localFile
                  /\ checkpoint' = updateLastSyncUserData(
                         [ref |-> tasks[t].wrote,
                          syncData |-> [version |-> version,
                                        content |-> toSyncContent(localFile.content, EmptySyncContent)]])
          /\ (FirstSyncReturns(t) /\ localFile = NoFile) =>
                  /\ ev'.res = "ok" /\ status' = "Idle"
                  /\ tasks[t].wrote = 0 /\ ~tasks[t].wroteLocal
                  /\ UNCHANGED <<localFile, remote, checkpoint>>
                  /\ remote.content = NoPayload]_vars

C36_Witness ==
    /\ ev.op = "sync" /\ ev.res = "ok" /\ ~ev.interfered /\ ev.retries = 0
    /\ localFile = [content |-> "a", stamp |-> 0]
    /\ remote = [ref |-> 2, content |-> SyncedWith("a")]
    /\ checkpoint = remote
    /\ status = "Idle" /\ backup = NoPayload

\* C37: every sync() call that set the status to Syncing leaves it Idle or
\* HasConflicts when it finishes, whether it returns or throws and whichever
\* step failed; the status is never Syncing with no call in flight.
C37_SyncEndsIdleOrConflicts ==
    [][/\ \A t \in TaskIds :
            (tasks[t].op = "sync" /\ tasks'[t] = FreeTask) => status' \in {"Idle", "HasConflicts"}
       /\ (status' = "Syncing") => (\E t \in TaskIds : tasks'[t].op # "none") \/ stops' > 0]_vars

\* C38: whenever the status is HasConflicts and no operation is running, a
\* pending preview with hasConflicts = true exists, for accept to apply.
C38_ConflictsKeepTheirPreview ==
    (status = "HasConflicts" /\ ~Busy /\ stops = 0) =>
        /\ spp # 0
        /\ promises[spp].st = "resolved"
        /\ promises[spp].hasConflicts

\* C39: the remote snapshot a cycle reasons about is what the store holds for
\* that ref, also when the read answers 304 and the checkpoint's data stands in
\* for it; so a conditional remote write built from the snapshot keeps the
\* entries of the other platforms that the store holds.
C39_SnapshotIsWhatTheStoreHolds ==
    [][\A t \in TaskIds :
          /\ (At(t, "readRemote") /\ tasks'[t].op # "none" /\ tasks'[t].pc # "readRemote") =>
                tasks'[t].remote = StoreSnapshot
          /\ (At(t, "writeRemote") /\ tasks'[t].wrote # 0 /\ ~tasks[t].force
               /\ remote.content # NoPayload) =>
                parseSyncData(remote'.content).content.other
                    = parseSyncData(remote.content).content.other]_vars

====
